---------------------------- MODULE Spec2Model ----------------------------
(***************************************************************************)
(* A model of the swim-workout analysis endpoint (api/analyze.js and its   *)
(* earlier revisions).  Strings are sequences of one-character strings, so *)
(* that trimming, splitting, substring search and the rep x distance       *)
(* regular expression are computed as the JavaScript computes them.        *)
(***************************************************************************)
EXTENDS Integers, Sequences, FiniteSets, TLC

(***************************************************************************)
(* Bounds of the model.                                                    *)
(***************************************************************************)
\* The longest text of the parser specification, in raw segments.
MaxLines == 3
\* The latest value of the wall clock read by new Date().
MaxClock == 2
\* The longest text made of keyword lines, in lines.
MaxKeywordLines == 2
\* The most blocks in a plan of the provider's document.
MaxBlocks == 2
\* The most items in a block of the provider's document.
MaxItems == 2

(***************************************************************************)
(* Characters and strings.                                                 *)
(***************************************************************************)
Digits == <<"0", "1", "2", "3", "4", "5", "6", "7", "8", "9">>

Upper == <<"A", "B", "C", "D", "E", "F", "G", "H", "I", "J", "K", "L", "M",
           "N", "O", "P", "Q", "R", "S", "T", "U", "V", "W", "X", "Y", "Z">>

Lower == <<"a", "b", "c", "d", "e", "f", "g", "h", "i", "j", "k", "l", "m",
           "n", "o", "p", "q", "r", "s", "t", "u", "v", "w", "x", "y", "z">>

\* The characters String.prototype.trim removes and \s matches.
WhiteSpace == {" ", "\t", "\n", "\r"}

IsDigit(c) == \E i \in 1..Len(Digits) : Digits[i] = c

DigitVal(c) == (CHOOSE i \in 1..Len(Digits) : Digits[i] = c) - 1

IsSpace(c) == c \in WhiteSpace

\* String.prototype.toLowerCase, one character.
LowerChar(c) ==
  IF \E i \in 1..Len(Upper) : Upper[i] = c
  THEN Lower[CHOOSE i \in 1..Len(Upper) : Upper[i] = c]
  ELSE c

toLowerCase(s) == [i \in 1..Len(s) |-> LowerChar(s[i])]

\* s.slice(a - 1, b): the characters a..b of s (empty when a > b).
Slice(s, a, b) == IF a > b THEN <<>> ELSE SubSeq(s, a, b)

\* The position of the first occurrence of sub in s, 0 when there is none
\* (String.prototype.indexOf, plus one).
IndexOf(s, sub) ==
  LET starts == {i \in 1..(Len(s) - Len(sub) + 1) :
                   SubSeq(s, i, i + Len(sub) - 1) = sub}
  IN IF starts = {} THEN 0
     ELSE CHOOSE i \in starts : \A j \in starts : i <= j

includes(s, sub) == IndexOf(s, sub) > 0

\* s.replace(sub, ''): the first occurrence of sub removed.
ReplaceFirst(s, sub) ==
  LET i == IndexOf(s, sub)
  IN IF i = 0 THEN s
     ELSE Slice(s, 1, i - 1) \o Slice(s, i + Len(sub), Len(s))

\* String.prototype.trim.
trim(s) ==
  LET keep == {i \in 1..Len(s) : ~IsSpace(s[i])}
  IN IF keep = {} THEN <<>>
     ELSE Slice(s, CHOOSE i \in keep : \A j \in keep : i <= j,
                   CHOOSE i \in keep : \A j \in keep : i >= j)

\* text.split(/\r?\n/): the pieces between line ends; a "\r" right before a
\* "\n" belongs to the line end, any other "\r" stays in its piece.
RECURSIVE SplitFrom(_, _, _)
SplitFrom(s, i, cur) ==
  IF i > Len(s) THEN <<cur>>
  ELSE IF s[i] = "\n" THEN <<cur>> \o SplitFrom(s, i + 1, <<>>)
  ELSE IF s[i] = "\r" /\ i < Len(s) /\ s[i + 1] = "\n"
       THEN <<cur>> \o SplitFrom(s, i + 2, <<>>)
  ELSE SplitFrom(s, i + 1, Append(cur, s[i]))

split(s) == SplitFrom(s, 1, <<>>)

\* .filter(Boolean) on strings: the non-empty ones, in order.
filterNonEmpty(ss) == SelectSeq(ss, LAMBDA l : l # <<>>)

\* text.split(/\r?\n/).map(l => l.trim()).filter(Boolean)
SplitLines(text) ==
  LET parts == split(text)
  IN filterNonEmpty([i \in 1..Len(parts) |-> trim(parts[i])])

\* parseInt of a string of decimal digits.
RECURSIVE parseInt(_)
parseInt(ds) ==
  IF ds = <<>> THEN 0
  ELSE 10 * parseInt(Slice(ds, 1, Len(ds) - 1)) + DigitVal(ds[Len(ds)])

(***************************************************************************)
(* The regular expression /(\d+)\s*[xX]\s*(\d+)/.                          *)
(***************************************************************************)
\* The end of the longest run of digits that starts at i (i - 1 when s[i] is
\* no digit): the greedy \d+.
RECURSIVE DigitRunEnd(_, _)
DigitRunEnd(s, i) ==
  IF i <= Len(s) /\ IsDigit(s[i]) THEN DigitRunEnd(s, i + 1) ELSE i - 1

\* The same for white space: the greedy \s*.
RECURSIVE SpaceRunEnd(_, _)
SpaceRunEnd(s, i) ==
  IF i <= Len(s) /\ IsSpace(s[i]) THEN SpaceRunEnd(s, i + 1) ELSE i - 1

NoMatch == [found |-> FALSE, reps |-> 0, dist |-> 0]

\* The match anchored at position i.  Each greedy run is followed by a
\* character outside its class, so backtracking into a run never helps.
MatchAt(s, i) ==
  LET d1 == DigitRunEnd(s, i)
      w1 == SpaceRunEnd(s, d1 + 1)
      x  == w1 + 1
      w2 == SpaceRunEnd(s, x + 1)
      d2 == DigitRunEnd(s, w2 + 1)
  IN IF d1 >= i /\ x <= Len(s) /\ s[x] \in {"x", "X"} /\ d2 >= w2 + 1
     THEN [found |-> TRUE,
           reps  |-> parseInt(Slice(s, i, d1)),
           dist  |-> parseInt(Slice(s, w2 + 1, d2))]
     ELSE NoMatch

\* A matcher that reports the last match of the line, not the first.
MatchStartLast(s) ==
  LET ok == {i \in 1..Len(s) : MatchAt(s, i).found /\ (i = 1 \/ ~IsDigit(s[i - 1]))}
  IN IF ok = {} THEN 0 ELSE CHOOSE i \in ok : \A j \in ok : i >= j

\* Start positions tried by String.prototype.match, leftmost first.
MatchStart(s) ==
  LET ok == {i \in 1..Len(s) : MatchAt(s, i).found}
  IN IF ok = {} THEN 0 ELSE CHOOSE i \in ok : \A j \in ok : i <= j

\* line.match(/(\d+)\s*[xX]\s*(\d+)/)
match(line) ==
  IF MatchStart(line) = 0 THEN NoMatch ELSE MatchAt(line, MatchStart(line))

(***************************************************************************)
(* The local parser (the first handler of the file that holds it).         *)
(***************************************************************************)
\* The keys of strokeCounts, in the order the object literal declares them.
StrokeOrder ==
  <<"freestyle", "backstroke", "breaststroke", "butterfly", "kick", "drill">>

\* The keys of sectionCounts, in the order the object literal declares them.
SectionOrder == <<"warmup", "preset", "mainset", "cooldown">>

Range(f) == {f[i] : i \in DOMAIN f}

RECURSIVE SumSeq(_)
SumSeq(q) == IF q = <<>> THEN 0 ELSE q[1] + SumSeq(Tail(q))

\* The values of a counter object, in key order.
Values(counts, order) == [i \in 1..Len(order) |-> counts[order[i]]]

InitialStrokeCounts == [k \in Range(StrokeOrder) |-> 0]

InitialSectionCounts == [k \in Range(SectionOrder) |-> 0]

\* A state machine that starts in the warmup.
InitialSectionWarmup == "warmup"

\* let currentSection = 'mainset'
InitialSection == "mainset"

KwWarm == <<"w", "a", "r", "m">>
KwPre == <<"p", "r", "e">>
KwMain == <<"m", "a", "i", "n">>
KwCool == <<"c", "o", "o", "l">>
KwBack == <<"b", "a", "c", "k">>
KwBreast == <<"b", "r", "e", "a", "s", "t">>
KwFly == <<"f", "l", "y">>
KwKick == <<"k", "i", "c", "k">>
KwDrill == <<"d", "r", "i", "l", "l">>

\* A chain of tests that falls back to the main set.
detectSectionReset(lower, current) ==
  IF includes(lower, KwWarm) THEN "warmup"
  ELSE IF includes(lower, KwPre) THEN "preset"
  ELSE IF includes(lower, KwMain) THEN "mainset"
  ELSE IF includes(lower, KwCool) THEN "cooldown"
  ELSE "mainset"

\* A chain of tests that looks for the main-set keyword first.
detectSectionMainFirst(lower, current) ==
  IF includes(lower, KwMain) THEN "mainset"
  ELSE IF includes(lower, KwWarm) THEN "warmup"
  ELSE IF includes(lower, KwPre) THEN "preset"
  ELSE IF includes(lower, KwCool) THEN "cooldown"
  ELSE current

\* detect block headers: the section after a line whose lower-cased text is
\* lower, when the section before it is current.
detectSection(lower, current) ==
  IF includes(lower, KwWarm) THEN "warmup"
  ELSE IF includes(lower, KwPre) THEN "preset"
  ELSE IF includes(lower, KwMain) THEN "mainset"
  ELSE IF includes(lower, KwCool) THEN "cooldown"
  ELSE current

\* A chain of tests in which the keyword tested last wins.
detectStrokeLastWins(lower) ==
  IF includes(lower, KwDrill) THEN "drill"
  ELSE IF includes(lower, KwKick) THEN "kick"
  ELSE IF includes(lower, KwFly) THEN "butterfly"
  ELSE IF includes(lower, KwBreast) THEN "breaststroke"
  ELSE IF includes(lower, KwBack) THEN "backstroke"
  ELSE "freestyle"

\* detect stroke
detectStroke(lower) ==
  IF includes(lower, KwBack) THEN "backstroke"
  ELSE IF includes(lower, KwBreast) THEN "breaststroke"
  ELSE IF includes(lower, KwFly) THEN "butterfly"
  ELSE IF includes(lower, KwKick) THEN "kick"
  ELSE IF includes(lower, KwDrill) THEN "drill"
  ELSE "freestyle"

\* const yards = reps * dist
Yards(m) == m.reps * m.dist

\* An accumulator that assigns where the code adds: counts[key] = yards.
AddYardsAssign(counts, key, yards) == [counts EXCEPT ![key] = yards]

\* counts[key] += yards
AddYards(counts, key, yards) == [counts EXCEPT ![key] = @ + yards]

\* A bucket that holds the yardage of the latest line only.
AddSectionYardsLatest(counts, section, yards) ==
  [counts EXCEPT ![section] = yards]

\* sectionCounts[currentSection] += yards
AddSectionYards(counts, section, yards) ==
  [counts EXCEPT ![section] = @ + yards]

\* An entry whose yards are those of one repetition.
SetEntryOneRep(m, stroke, section) ==
  [reps |-> m.reps, distancePerRep |-> m.dist, stroke |-> stroke,
   section |-> section, yards |-> m.dist]

\* The entry pushed on sets for a line that matched.
SetEntry(m, stroke, section) ==
  [reps |-> m.reps, distancePerRep |-> m.dist, stroke |-> stroke,
   section |-> section, yards |-> Yards(m)]

\* val / totalYards, kept as the exact fraction.
Divide(val, total) == [num |-> val, den |-> total]

\* A percentage loop without its guard: every counter gets an entry.
PositiveOrZero(val) == val >= 0

\* Whether the percentage loop writes an entry for a counter.
Positive(val) == val > 0

\* for (const [key, val] of Object.entries(counts))
\*   if (val > 0) percentages[key] = val / totalYards;
\* The object is the sequence of its entries, in insertion order.
RECURSIVE PercentagesFrom(_, _, _, _)
PercentagesFrom(counts, order, total, i) ==
  IF i > Len(order) THEN <<>>
  ELSE (IF Positive(counts[order[i]])
        THEN <<[key |-> order[i], val |-> Divide(counts[order[i]], total)]>>
        ELSE <<>>)
       \o PercentagesFrom(counts, order, total, i + 1)

\* A map with an entry for every key, whatever its accumulator holds.
PercentagesOfAll(counts, order, total) ==
  [i \in 1..Len(order) |->
     [key |-> order[i], val |-> Divide(counts[order[i]], total)]]

Percentages(counts, order, total) == PercentagesFrom(counts, order, total, 1)

\* Object.keys(strokePercentages)[0] || 'freestyle'
FirstKey(percentages) ==
  IF percentages = <<>> THEN "freestyle" ELSE percentages[1].key

\* The template string of aiSummary, as the three values it interpolates.
Summary(nsets, total, percentages) ==
  [count |-> nsets, total |-> total, stroke |-> FirstKey(percentages)]

(***************************************************************************)
(* Requests: what the platform hands to handler(req, res).                 *)
(***************************************************************************)
\* A value that is a string or not: undefined, a number, a string.
Undefined == [type |-> "undefined", s |-> <<>>, n |-> 0]

Str(s) == [type |-> "string", s |-> s, n |-> 0]

Num(n) == [type |-> "number", s |-> <<>>, n |-> n]

\* The other values a JSON document can hold: null, a boolean, an array
\* (by its length and by the text String() gives for it, its elements
\* joined by commas) and an object (by its number of members).
Null == [type |-> "null", s |-> <<>>, n |-> 0]

Bool(b) == [type |-> "boolean", s |-> <<>>, n |-> IF b THEN 1 ELSE 0]

Arr(n, s) == [type |-> "array", s |-> s, n |-> n]

Obj(n) == [type |-> "object", s |-> <<>>, n |-> n]

\* JavaScript truthiness of such a value.
Truthy(v) ==
  CASE v.type = "undefined" -> FALSE
    [] v.type = "string" -> v.s # <<>>
    [] v.type \in {"array", "object"} -> TRUE
    [] OTHER -> v.n # 0

\* The decimal digits of an integer.
RECURSIVE NumberText(_)
NumberText(n) ==
  IF n < 0 THEN <<"-">> \o NumberText(0 - n)
  ELSE IF n < 10 THEN <<Digits[n + 1]>>
  ELSE NumberText(n \div 10) \o <<Digits[(n % 10) + 1]>>

\* String(v)
StringOf(v) ==
  CASE v.type = "undefined" -> <<"u", "n", "d", "e", "f", "i", "n", "e", "d">>
    [] v.type = "null" -> <<"n", "u", "l", "l">>
    [] v.type = "boolean" -> IF v.n = 1 THEN <<"t", "r", "u", "e">>
                             ELSE <<"f", "a", "l", "s", "e">>
    [] v.type = "number" -> NumberText(v.n)
    [] v.type = "object" ->
         <<"[", "o", "b", "j", "e", "c", "t", " ", "O", "b", "j", "e", "c",
           "t", "]">>
    [] OTHER -> v.s

\* Array.isArray(v)
IsArray(v) == v.type = "array"

LF == <<"\n">>

CRLF == <<"\r", "\n">>

RECURSIVE Join(_, _)
Join(ss, sep) ==
  IF ss = <<>> THEN <<>>
  ELSE IF Len(ss) = 1 THEN ss[1]
  ELSE ss[1] \o sep \o Join(Tail(ss), sep)

\* Raw lines of practice sheets, as a client may send them.
SegPlain == <<"8", "x", "5", "0">>

SegWarm == <<"W", "a", "r", "m", " ", "u", "p">>

SegBack == <<"4", " ", "X", " ", "2", "5", " ", "b", "a", "c", "k">>

SegEasy == <<"e", "a", "s", "y">>

SegTwo == <<"2", "x", "1", "0", " ", "3", "x", "2", "0", " ", "k", "i", "c", "k">>

SegCool == <<" ", "c", "o", "o", "l", " ", "0", "x", "5", " ">>

SegPre == <<"P", "r", "e", " ", "1", "2", "x", " ", "5", "f", "l", "y">>

SegBlank == <<" ">>

SegRestart == <<"7", " ", "3", "x", "4", " ", "d", "r", "i", "l", "l">>
Segments ==
  {SegPlain, SegWarm, SegBack, SegEasy,
   SegTwo, SegCool, SegPre, SegBlank,
   SegRestart}

SeqsUpTo(S, n) == UNION {[1..k -> S] : k \in 0..n}

\* The texts of the parser specification: up to MaxLines raw lines, joined by
\* either line end.
ParserTexts ==
  {Join(ss, sep) : ss \in SeqsUpTo(Segments, MaxLines), sep \in {LF, CRLF}}

(***************************************************************************)
(* Practice sheets with section headers, and sheets given as examples.     *)
(***************************************************************************)
\* Lines that hold section keywords, alone or together.
KwSegMainWarm ==
  <<"M", "a", "i", "n", " ", "w", "a", "r", "m", " ", "2", "x", "5">>

KwSegPreCool ==
  <<"p", "r", "e", " ", "C", "O", "O", "L", " ", "3", "x", "5", " ", "b",
    "a", "c", "k">>

KwSegMainCool ==
  <<"M", "A", "I", "N", " ", "c", "o", "o", "l", " ", "1", "x", "5">>

KwSegCool ==
  <<"C", "o", "o", "l", " ", "4", "x", "5", " ", "k", "i", "c", "k">>

KwSegNone ==
  <<"6", "x", "5", " ", "f", "l", "y">>

KwSegPull ==
  <<"P", "u", "l", "l", " ", "2", "x", "5">>

KwSegSprint ==
  <<"s", "p", "r", "i", "n", "t", " ", "3", "x", "5">>

KeywordSegments ==
  {KwSegMainWarm, KwSegPreCool, KwSegMainCool, KwSegCool, KwSegNone,
   KwSegPull, KwSegSprint}

\* A sheet without any section header.
ScenarioNoHeader ==
  <<"4", "x", "5", "0", " ", "b", "a", "c", "k", "\n", "4", "x", "5", "0",
    " ", "b", "r", "e", "a", "s", "t">>

\* A sheet of three titled sections.
ScenarioSix ==
  <<"W", "a", "r", "m", "u", "p", "\n", "8", "x", "5", "0", " ", "f", "r",
    "e", "e", "\n", "M", "a", "i", "n", " ", "S", "e", "t", "\n", "1", "0",
    "x", "1", "0", "0", " ", "f", "r", "e", "e", " ", "@", "1", ":", "3",
    "0", "\n", "C", "o", "o", "l", "d", "o", "w", "n", "\n", "4", "x", "2",
    "5", " ", "e", "a", "s", "y">>

\* A sheet with a line that holds no numbers.
ScenarioEasy ==
  <<"W", "a", "r", "m", "u", "p", "\n", "e", "a", "s", "y", " ", "s", "w",
    "i", "m", ",", " ", "n", "o", " ", "n", "u", "m", "b", "e", "r", "s",
    "\n", "2", "x", "5", "0">>

\* A sheet whose larger stroke is declared after its smaller one.
ScenarioDominant ==
  <<"4", "x", "2", "5", " ", "b", "a", "c", "k", "\n", "8", "x", "5", "0",
    " ", "k", "i", "c", "k">>

\* A sheet of three equal strokes.
ScenarioThirds ==
  <<"1", "x", "5", "0", " ", "b", "a", "c", "k", "\n", "1", "x", "5", "0",
    " ", "k", "i", "c", "k", "\n", "1", "x", "5", "0", " ", "d", "r", "i",
    "l", "l">>

\* A sheet that returns to its warmup after the main set.
ScenarioReturn ==
  <<"W", "a", "r", "m", "u", "p", " ", "2", "x", "5", "0", "\n", "M", "a",
    "i", "n", " ", "4", "x", "1", "0", "0", "\n", "W", "a", "r", "m", "u",
    "p", " ", "3", "x", "5", "0">>

\* A sheet whose lines name several strokes each, or none.
ScenarioMedley ==
  <<"4", "x", "2", "5", " ", "K", "i", "c", "k", " ", "o", "n", " ", "b",
    "a", "c", "k", "\n", "2", "x", "5", "0", " ", "b", "r", "e", "a", "s",
    "t", " ", "d", "r", "i", "l", "l", " ", "f", "l", "y", "\n", "1", "x",
    "1", "0", "0", " ", "s", "w", "i", "m">>

\* The texts of the scenario specification: the example sheets, and every
\* text of up to MaxKeywordLines keyword lines.
ScenarioTexts ==
  {ScenarioNoHeader, ScenarioSix, ScenarioEasy, ScenarioDominant,
   ScenarioThirds, ScenarioReturn, ScenarioMedley}
    \cup {Join(ss, LF) : ss \in SeqsUpTo(KeywordSegments, MaxKeywordLines)}

\* The request bodies of the handler specification: none, no text, a text
\* that is no string, and empty, blank and non-blank texts.
NoBody == [present |-> FALSE, text |-> Undefined]

BodyOf(v) == [present |-> TRUE, text |-> v]

HandlerBodies ==
  {NoBody, BodyOf(Undefined), BodyOf(Num(0)), BodyOf(Num(5)),
   BodyOf(Str(<<>>)), BodyOf(Str(<<" ", "\n">>)),
   BodyOf(Str(SegPlain)), BodyOf(Str(Join(<<SegWarm, SegBack>>, LF)))}

Methods == {"GET", "POST", "PUT"}

SecretS == <<"s">>

BearerS == <<"B", "e", "a", "r", "e", "r", " ", "s">>

\* req.headers.authorization: absent, or one of a few values around the
\* secret "s".
AuthHeaders ==
  {Undefined, Str(BearerS), Str(SecretS), Str(<<"B", "e", "a", "r", "e", "r", " ", "t">>),
   Str(<<"B", "e", "a", "r", "e", "r", " ", " ", "s">>),
   Str(<<"s", "B", "e", "a", "r", "e", "r", " ">>)}

\* process.env.GITHUB_API_KEY: unset, blank, "s", and "s" with a trailing
\* space.
Secrets == {Undefined, Str(<<" ">>), Str(SecretS), Str(<<"s", " ">>)}

\* process.env: the bearer secret, the provider keys (GEMINI_API_KEY and
\* OPENAI_API_KEY, set together or not at all) and the commit of the build.
Envs ==
  [GITHUB_API_KEY : Secrets,
   PROVIDER_API_KEY : {Undefined, Str(<<"k">>)},
   VERCEL_GIT_COMMIT_SHA : {Undefined, Str(<<"c">>)}]

(***************************************************************************)
(* The revisions of the handler.                                           *)
(*   local     the deterministic parser                                    *)
(*   current   api/analyze.js: one call through fetchWithRetry             *)
(*   retry     the earlier revision with fetchWithRetry                    *)
(*   single    one call, diagnostics route                                 *)
(*   twocall   analysis call, then summary call                            *)
(*   twocall2  the same, with the status check and the 503 answer          *)
(*   gemini15  one call, POST only                                         *)
(*   openai    one call through the OpenAI client, POST only               *)
(***************************************************************************)
Variants ==
  {"local", "current", "retry", "single", "twocall", "twocall2", "gemini15",
   "openai"}

\* What tells the revisions apart:
\*   diagnostics  GET answers the diagnostics payload
\*   bearer       the credential is the bearer token (else the provider key)
\*   bodyDefault  the body is read as req.body || {}
\*   trimCheck    the text check is !text || !text.trim()
\*   try          the body of the handler is inside try/catch
\*   engine       "parser", "fetch" or "sdk"
\*   retry        the analysis call goes through fetchWithRetry
\*   checkOk      a response that is not ok is thrown as an error
\*   noCandidates the status answered to a body without candidates (0: the
\*                handler does not look)
\*   summaryCall  a second call asks for the summary
Cfg(v) ==
  CASE v = "local" ->
         [diagnostics |-> FALSE, bearer |-> TRUE, bodyDefault |-> TRUE,
          trimCheck |-> FALSE, try |-> FALSE, engine |-> "parser",
          retry |-> FALSE, checkOk |-> FALSE, noCandidates |-> 0,
          summaryCall |-> FALSE]
    [] v \in {"current", "retry"} ->
         [diagnostics |-> TRUE, bearer |-> FALSE, bodyDefault |-> TRUE,
          trimCheck |-> TRUE, try |-> TRUE, engine |-> "fetch",
          retry |-> TRUE, checkOk |-> TRUE, noCandidates |-> 503,
          summaryCall |-> FALSE]
    [] v = "single" ->
         [diagnostics |-> TRUE, bearer |-> FALSE, bodyDefault |-> TRUE,
          trimCheck |-> TRUE, try |-> TRUE, engine |-> "fetch",
          retry |-> FALSE, checkOk |-> FALSE, noCandidates |-> 500,
          summaryCall |-> FALSE]
    [] v = "twocall" ->
         [diagnostics |-> TRUE, bearer |-> FALSE, bodyDefault |-> TRUE,
          trimCheck |-> TRUE, try |-> TRUE, engine |-> "fetch",
          retry |-> FALSE, checkOk |-> FALSE, noCandidates |-> 500,
          summaryCall |-> TRUE]
    [] v = "twocall2" ->
         [diagnostics |-> TRUE, bearer |-> FALSE, bodyDefault |-> TRUE,
          trimCheck |-> TRUE, try |-> TRUE, engine |-> "fetch",
          retry |-> FALSE, checkOk |-> TRUE, noCandidates |-> 503,
          summaryCall |-> TRUE]
    [] v = "gemini15" ->
         [diagnostics |-> FALSE, bearer |-> FALSE, bodyDefault |-> FALSE,
          trimCheck |-> TRUE, try |-> TRUE, engine |-> "fetch",
          retry |-> FALSE, checkOk |-> FALSE, noCandidates |-> 0,
          summaryCall |-> FALSE]
    [] OTHER ->
         [diagnostics |-> FALSE, bearer |-> FALSE, bodyDefault |-> FALSE,
          trimCheck |-> TRUE, try |-> TRUE, engine |-> "sdk",
          retry |-> FALSE, checkOk |-> FALSE, noCandidates |-> 0,
          summaryCall |-> FALSE]

\* fetchWithRetry(url, options, retries = 3)
Retries == 3

\* const delay = 400 * Math.pow(2, attempt)
BaseDelay == 400

\* durationMinutes: 90
DurationMinutes == 90

\* What crypto.randomUUID() may return.
UUIDs == {"u1", "u2"}

\* The requests in flight; a specification uses one or both.
Reqs == {1, 2}

(***************************************************************************)
(* Responses.                                                              *)
(***************************************************************************)
NoSummary == [count |-> 0, total |-> 0, stroke |-> ""]

\* The blocks of a plan and the items of a block: a value that is an array
\* of elements, or a value of another type.
NoList == [type |-> "undefined", elems |-> <<>>]

List(es) == [type |-> "array", elems |-> es]

NotAList(type) == [type |-> type, elems |-> <<>>]

\* A recoveryPlan: its type and, for an object or an array, the four
\* properties the handler reads.
NoPlan ==
  [type |-> "undefined", sessionSummary |-> Undefined,
   setStrategy |-> Undefined, blocks |-> NoList,
   otherStrategies |-> Undefined]

\* The members of a JSON document that the handler reads.
NoMembers ==
  [aiTip |-> Undefined, recoverySuggestions |-> Undefined,
   aiSummary |-> Undefined, recoveryPlan |-> NoPlan]

\* What JSON.parse returns: a value of some type and, for an object, its
\* members.
Document(type, members) == [type |-> type, members |-> members]

\* {}
EmptyObject == Document("object", NoMembers)

\* No details field.
NoDetails == [kind |-> "none", status |-> 0, body |-> "none"]

EmptyBody ==
  [kind |-> "none", details |-> NoDetails, error |-> "", ok |-> FALSE, build |-> <<>>, id |-> "",
   date |-> 0, type |-> "", durationMinutes |-> 0, distanceYards |-> 0,
   sets |-> <<>>, aiSummary |-> NoSummary, strokePercentages |-> <<>>,
   sectionPercentages |-> <<>>, rawOutput |-> Undefined,
   formattedText |-> Undefined, summaryText |-> "", merged |-> NoMembers]

\* { error: ... }
ErrorBody(msg) == [EmptyBody EXCEPT !.kind = "error", !.error = msg]

\* { ok: true, ..., build: process.env.VERCEL_GIT_COMMIT_SHA || "local" }
DiagnosticsBody(e) ==
  [EmptyBody EXCEPT !.kind = "diagnostics", !.ok = TRUE,
     !.build = IF Truthy(e.VERCEL_GIT_COMMIT_SHA)
               THEN e.VERCEL_GIT_COMMIT_SHA.s
               ELSE <<"l", "o", "c", "a", "l">>]

\* Object.keys of the body of the local parser's 200.
WorkoutKeys ==
  <<"id", "date", "type", "durationMinutes", "distanceYards", "sets",
    "aiSummary", "strokePercentages", "sectionPercentages">>

\* A body whose durationMinutes is taken from the clock.
WorkoutBodyTimed(id, date, total, ss, summary, strokePct, sectionPct) ==
  [EmptyBody EXCEPT !.kind = "workout", !.id = id, !.date = date,
     !.type = "Swim Practice", !.durationMinutes = date,
     !.distanceYards = total, !.sets = ss, !.aiSummary = summary,
     !.strokePercentages = strokePct, !.sectionPercentages = sectionPct]

\* The body of the local parser's 200.
WorkoutBody(id, date, total, ss, summary, strokePct, sectionPct) ==
  [EmptyBody EXCEPT !.kind = "workout", !.id = id, !.date = date,
     !.type = "Swim Practice", !.durationMinutes = DurationMinutes,
     !.distanceYards = total, !.sets = ss, !.aiSummary = summary,
     !.strokePercentages = strokePct, !.sectionPercentages = sectionPct]

\* The body of a 200 that carries the provider's analysis: the parsed JSON
\* (rawOutput undefined), or { rawOutput: raw } when the text is no JSON.
AnalysisBody(raw, summary) ==
  [EmptyBody EXCEPT !.kind = "analysis", !.rawOutput = raw,
     !.summaryText = summary]

\* The body of the 200 of the revision that calls the OpenAI client:
\* { formattedText: message, ...jsonData }
CompletionBody(message) ==
  [EmptyBody EXCEPT !.kind = "analysis", !.formattedText = Str(message)]

NoResp == [status |-> 0, body |-> "none", text |-> <<>>, json |-> EmptyObject]

NoErr == [kind |-> "none", status |-> 0]

\* Texts the provider may return in its first candidate: a JSON object, the
\* same inside a markdown fence, and two texts that are no JSON, one of them
\* fenced and padded.
TextObject == <<"{", "}">>

\* The grave accent of a markdown fence, written as a character the
\* strings of the model can hold.
Tick == "#"

TextFenced ==
  <<Tick, Tick, Tick, "j", "s", "o", "n", "\n", "{", "}", "\n", Tick, Tick,
    Tick>>

TextPlain == <<"n", "o">>

\* A JSON document that is not spelled out character by character: the
\* response carries, as json, the value that JSON.parse makes of it.
TextDocument == <<"{", ":", "}">>

TextFencedPlain ==
  <<" ", Tick, Tick, Tick, "\n", "n", "o", Tick, Tick, Tick, " ">>

ProviderTexts == {TextObject, TextFenced, TextPlain, TextFencedPlain}

\* What one outbound call may return: a status and a body that is JSON
\* without candidates or no JSON at all, and for a 200 also JSON with a first
\* candidate of some text.
FetchResponses ==
  [status : {200, 500, 503}, body : {"nocandidates", "badjson"}, text : {<<>>},
   json : {EmptyObject}]
    \cup [status : {200}, body : {"candidate"}, text : ProviderTexts,
          json : {EmptyObject}]

\* data.candidates[0]?.content?.parts?.[0]?.text ?? ""
TextOf(o) == IF o.body = "candidate" THEN o.text ELSE <<>>

StartsWith(str, prefix) ==
  Len(str) >= Len(prefix) /\ SubSeq(str, 1, Len(prefix)) = prefix

EndsWith(str, suffix) ==
  Len(str) >= Len(suffix)
    /\ SubSeq(str, Len(str) - Len(suffix) + 1, Len(str)) = suffix

Fence == <<Tick, Tick, Tick>>

FenceJson == <<Tick, Tick, Tick, "j", "s", "o", "n">>

JsonLabel == <<"j", "s", "o", "n">>

\* Strip markdown code blocks if present, and the "json" label.
StripFence(raw) ==
  LET a == trim(raw)
      b == IF StartsWith(a, FenceJson) THEN Slice(a, Len(FenceJson) + 1, Len(a))
           ELSE IF StartsWith(a, Fence) THEN Slice(a, Len(Fence) + 1, Len(a))
           ELSE a
      c == IF EndsWith(b, Fence) THEN Slice(b, 1, Len(b) - Len(Fence)) ELSE b
      d == trim(c)
  IN IF \/ StartsWith(toLowerCase(d), JsonLabel \o <<"\n">>)
        \/ StartsWith(toLowerCase(d), JsonLabel \o <<"\r">>)
     THEN trim(Slice(d, Len(JsonLabel) + 1, Len(d)))
     ELSE d

\* The text given to JSON.parse: stripped by the current revision, as
\* returned by the others.
Cleaned(v, raw) == IF v = "current" THEN StripFence(raw) ELSE raw

\* Whether JSON.parse accepts a text, for the texts of the model and their
\* pieces: the one JSON document among them is {}, which white space may
\* surround.
ParsesAsJSON(raw) == trim(raw) \in {TextObject, TextDocument}

\* JSON.parse(raw) of a text that parses: {} for the text "{}", and for
\* the document that is not spelled out the value the response carries.
JSONParse(raw, o) == IF trim(raw) = TextDocument THEN o.json ELSE EmptyObject

\* parsed: what JSON.parse returned or, when it threw, the object
\* { rawOutput: raw, parseError }, which has none of the members read.
Parsed(v, o) ==
  IF ParsesAsJSON(Cleaned(v, TextOf(o)))
  THEN JSONParse(Cleaned(v, TextOf(o)), o)
  ELSE EmptyObject

\* typeof x === "object" for a value that is not null.
IsObject(x) == x.type \in {"object", "array"}

\* A fallback that drops the text that is no JSON.
RawOutputDropped(v, o) == Undefined

\* try { parsed = JSON.parse(raw) } catch { parsed = { rawOutput: raw } }
\* The rawOutput of parsed: undefined when the text is JSON.
RawOutput(v, o) ==
  IF /\ ParsesAsJSON(Cleaned(v, TextOf(o)))
     /\ (v \in {"current", "retry"} => IsObject(Parsed(v, o)))
  THEN Undefined
  ELSE Str(Cleaned(v, TextOf(o)))

(***************************************************************************)
(* What the current revision makes of the provider's document.            *)
(***************************************************************************)
\* const merged = parsed && typeof parsed === "object"
\*   ? { ...parsed } : { rawOutput: raw }
\* The members read; rawOutput is RawOutput above.
Merged(parsed) == IF IsObject(parsed) THEN parsed.members ELSE NoMembers

\* !x || !String(x).trim()
Blank(x) == ~Truthy(x) \/ trim(StringOf(x)) = <<>>

\* A test that looks for a missing value only.
BlankFalsyOnly(x) == ~Truthy(x)

\* s.split("\n")
RECURSIVE SplitNewline(_, _, _)
SplitNewline(s, i, cur) ==
  IF i > Len(s) THEN <<cur>>
  ELSE IF s[i] = "\n" THEN <<cur>> \o SplitNewline(s, i + 1, <<>>)
  ELSE SplitNewline(s, i + 1, Append(cur, s[i]))

\* ls.find((l) => l.trim().length > 0) ?? ""
RECURSIVE FindNonBlank(_)
FindNonBlank(ls) ==
  IF ls = <<>> THEN <<>>
  ELSE IF Len(trim(ls[1])) > 0 THEN ls[1]
  ELSE FindNonBlank(Tail(ls))

\* Normalize aiTip: if missing, derive a tiny hint from the first recovery
\* line.
NormalizeTip(merged) ==
  IF Blank(merged.aiTip) /\ merged.recoverySuggestions.type = "string"
  THEN LET firstLine ==
             FindNonBlank(SplitNewline(merged.recoverySuggestions.s, 1, <<>>))
       IN [merged EXCEPT !.aiTip = Str(trim(firstLine))]
  ELSE merged

NoSummaryAvailable ==
  <<"N", "o", " ", "s", "u", "m", "m", "a", "r", "y", " ", "a", "v", "a",
    "i", "l", "a", "b", "l", "e", ".">>

\* Ensure aiSummary exists, with a test that lets blank text through.
NormalizeSummaryFalsyOnly(merged) ==
  IF BlankFalsyOnly(merged.aiSummary)
  THEN [merged EXCEPT !.aiSummary = Str(NoSummaryAvailable)]
  ELSE merged

\* Ensure aiSummary exists.
NormalizeSummary(merged) ==
  IF Blank(merged.aiSummary)
  THEN [merged EXCEPT !.aiSummary = Str(NoSummaryAvailable)]
  ELSE merged

\* { estimatedDurationSec: 0, exerciseCount: 0, focusRegions: [],
\*   intensityTag: "Light recovery" }
DefaultSessionSummary == Obj(4)

EmptyArray == Arr(0, <<>>)

\* The plan given when the document has none.
DefaultPlan ==
  [type |-> "object", sessionSummary |-> DefaultSessionSummary,
   setStrategy |-> EmptyArray, blocks |-> List(<<>>),
   otherStrategies |-> EmptyArray]

\* An item of a block: its type and, for an object, its sets and its
\* coachingCues.
Item(type, itemSets, coachingCues) ==
  [type |-> type, sets |-> itemSets, coachingCues |-> coachingCues]

\* A block of a plan: its type and, for an object, its id and its items.
Block(type, id, items) == [type |-> type, id |-> id, items |-> items]

\* typeof item?.sets === "number" && item.sets > 0 ? item.sets : 2
NormalizedSets(item) ==
  IF item.sets.type = "number" /\ item.sets.n > 0 THEN item.sets ELSE Num(2)

\* { ...item, sets: normalizedSets,
\*   coachingCues: Array.isArray(item?.coachingCues) ? item.coachingCues : [] }
NormalizeItem(item) ==
  Item("object", NormalizedSets(item),
       IF IsArray(item.coachingCues) THEN item.coachingCues ELSE EmptyArray)

\* block && typeof block.id === "string" && Array.isArray(block.items)
\* A block that is null is falsy; one that is an object or a non-empty
\* string is truthy.
ValidBlock(block) ==
  /\ block.type # "null"
  /\ block.id.type = "string"
  /\ block.items.type = "array"

\* { ...block, items: block.items.map(...) }
NormalizeBlock(block) ==
  [block EXCEPT
     !.items = List([i \in 1..Len(block.items.elems) |->
                       NormalizeItem(block.items.elems[i])])]

\* Filter out invalid blocks and normalize items.
NormalizeBlocks(blocks) ==
  IF blocks.type # "array" THEN List(<<>>)
  ELSE LET valid == SelectSeq(blocks.elems, ValidBlock)
       IN List([i \in 1..Len(valid) |-> NormalizeBlock(valid[i])])

\* !merged.recoveryPlan || typeof merged.recoveryPlan !== 'object'
\* Of the plans that are no object, null and undefined are falsy and the
\* strings and numbers are of another type.
NoPlanObject(plan) == plan.type \notin {"object", "array"}

\* Ensure recoveryPlan exists and is well-formed.
NormalizePlan(plan) ==
  IF NoPlanObject(plan) THEN DefaultPlan
  ELSE [type |-> plan.type,
        sessionSummary |-> IF ~Truthy(plan.sessionSummary)
                           THEN DefaultSessionSummary
                           ELSE plan.sessionSummary,
        setStrategy |-> IF IsArray(plan.setStrategy) THEN plan.setStrategy
                        ELSE EmptyArray,
        blocks |-> NormalizeBlocks(plan.blocks),
        otherStrategies |-> IF IsArray(plan.otherStrategies)
                            THEN plan.otherStrategies
                            ELSE EmptyArray]

\* The normalisation of a revision: of the hint and of the summary in the
\* revision with fetchWithRetry alone, of the plan as well in the current
\* one.
Normalize(v, merged) ==
  LET m == NormalizeSummary(NormalizeTip(merged))
  IN IF v = "current"
     THEN [m EXCEPT !.recoveryPlan = NormalizePlan(m.recoveryPlan)]
     ELSE m

\* res.json(merged): the JSON text of merged, read back.  Of an array
\* JSON.stringify writes the elements and none of the properties set on
\* it.
Serialized(merged) ==
  IF merged.recoveryPlan.type = "array"
  THEN [merged EXCEPT !.recoveryPlan = [NoPlan EXCEPT !.type = "array"]]
  ELSE merged

\* The values the provider may give for aiTip and aiSummary: none, null,
\* false, 0, "", blank text, a text, a number, true, [], [" "] and {}.
TextTip == <<"t", "i", "p">>

ScalarValues ==
  {Undefined, Null, Bool(FALSE), Num(0), Str(<<>>), Str(<<" ", "\n">>),
   Str(TextTip), Num(5), Bool(TRUE), Arr(0, <<>>), Arr(1, <<" ">>), Obj(0)}

\* " \n\n  rest \r\nsleep": two blank lines, then two lines of advice.
TextSuggestions ==
  <<" ", "\n", "\n", " ", " ", "r", "e", "s", "t", " ", "\r", "\n", "s",
    "l", "e", "e", "p">>

\* The values the provider may give for recoverySuggestions: none, lines of
\* advice behind blank lines, a text of blank lines, "", an array of one
\* line and a number.
SuggestionValues ==
  {Undefined, Str(TextSuggestions), Str(<<" ", "\n", "\t">>), Str(<<>>),
   Arr(1, <<"r", "e", "s", "t">>), Num(1)}

\* Documents that differ in aiTip, recoverySuggestions and aiSummary.
TipDocuments ==
  {Document("object",
            [NoMembers EXCEPT !.aiTip = tip, !.recoverySuggestions = sug,
                              !.aiSummary = sum]) :
     tip \in ScalarValues, sug \in SuggestionValues, sum \in ScalarValues}

\* Documents that are no object: null, a number, a string, true, an array.
OtherDocuments ==
  {Document(type, NoMembers) :
     type \in {"null", "number", "string", "boolean", "array"}}

\* A recoveryPlan that is null, a string, a number or an array.
OtherPlans ==
  {[NoPlan EXCEPT !.type = type] :
     type \in {"null", "string", "number", "array"}}

\* What the provider may give for a property of the plan that is to be an
\* array: none, an array, a string, an object.
ArrayValues == {Undefined, Arr(1, <<"a">>), Str(<<"s">>), Obj(1)}

\* Plans that are objects and differ in their properties, with blocks that
\* are missing, no array, or an empty array.
ShallowPlans ==
  {[type |-> "object", sessionSummary |-> ss, setStrategy |-> st,
    blocks |-> bl, otherStrategies |-> ot] :
     ss \in {Undefined, Null, Num(0), Str(<<>>), Obj(0), Obj(1),
             Str(<<"x">>), Num(1), Bool(TRUE), Arr(0, <<>>)},
     st \in ArrayValues,
     bl \in {NoList, NotAList("object"), NotAList("string"), List(<<>>)},
     ot \in ArrayValues}

\* The items the provider may give: null, and objects whose sets is 3, 0,
\* -1, missing or the string "3", with coachingCues an array, missing or a
\* string.
ItemValues ==
  {Item("null", Undefined, Undefined),
   Item("object", Num(3), Arr(1, <<"c">>)),
   Item("object", Num(0), Undefined),
   Item("object", Num(0 - 1), Str(<<"c">>)),
   Item("object", Undefined, Arr(0, <<>>)),
   Item("object", Str(<<"3">>), Arr(1, <<"c">>))}

\* The blocks the provider may give: null, a string, an object with a
\* string id and up to MaxItems items, and objects whose id is no string
\* or whose items are no array.
TextId == <<"b", "1">>

BlockValues ==
  {Block("null", Undefined, NoList), Block("string", Undefined, NoList),
   Block("object", Num(1), List(<<>>)),
   Block("object", Undefined, List(<<>>)),
   Block("object", Str(TextId), NoList),
   Block("object", Str(TextId), NotAList("object"))}
    \cup {Block("object", Str(TextId), List(is)) :
            is \in SeqsUpTo(ItemValues, MaxItems)}

\* Plans that are objects and differ in their blocks, up to MaxBlocks of
\* them.
DeepPlans ==
  {[type |-> "object", sessionSummary |-> Obj(1),
    setStrategy |-> Arr(1, <<"a">>), blocks |-> List(bs),
    otherStrategies |-> Undefined] :
     bs \in SeqsUpTo(BlockValues, MaxBlocks)}

PlanDocuments ==
  {Document("object", [NoMembers EXCEPT !.recoveryPlan = plan]) :
     plan \in OtherPlans \cup ShallowPlans \cup DeepPlans}

\* What the call of the normalisation specification may return: an OK
\* response whose first candidate is one of the documents, or a text that
\* is no JSON.
DocumentResponses ==
  [status : {200}, body : {"candidate"}, text : {TextDocument},
   json : TipDocuments \cup OtherDocuments \cup PlanDocuments]
    \cup [status : {200}, body : {"candidate"}, text : {TextPlain},
          json : {EmptyObject}]

\* The body of the 200 of a revision with one call.
ResultBody(v, o) ==
  IF v \in {"current", "retry"}
  THEN [AnalysisBody(RawOutput(v, o), "") EXCEPT
          !.merged = Serialized(Normalize(v, Merged(Parsed(v, o))))]
  ELSE AnalysisBody(RawOutput(v, o), "")

(***************************************************************************)
(* State.                                                                  *)
(***************************************************************************)
VARIABLES
  env,                \* process.env
  clock,              \* the wall clock new Date() reads
  variant,            \* the revision that handles each request
  method,             \* req.method
  authorization,      \* req.headers.authorization
  body,               \* req.body
  pc,                 \* where each handler is
  text,               \* const { text } = req.body || {}
  lines,              \* the local parser's lines
  idx,                \* the position of the for loop in lines
  totalYards,
  sets,
  strokeCounts,
  sectionCounts,
  currentSection,
  strokePercentages,
  sectionPercentages,
  aiSummary,
  call,               \* the outbound call in progress: 1 analysis, 2 summary
  attempt,            \* fetchWithRetry's attempt
  fetches,            \* outbound calls issued so far
  waits,              \* the backoff delays waited so far
  outcomes,           \* what each outbound call did, in order
  resp,               \* the response the last outbound call handed to the handler
  parsedRaw,          \* parsed.rawOutput: the analysis text that was no JSON
  err,                \* the exception being thrown
  bodyRead,           \* whether req.body has been read
  responses,          \* what was sent through res, in order
  threw               \* whether an exception left the handler

requestVars == <<env, variant, method, authorization, body>>

parserVars ==
  <<lines, idx, totalYards, sets, strokeCounts, sectionCounts,
    currentSection, strokePercentages, sectionPercentages, aiSummary>>

fetchVars == <<call, attempt, fetches, waits, outcomes, resp, parsedRaw>>

vars ==
  <<env, clock, variant, method, authorization, body, pc, text, lines, idx,
    totalYards, sets, strokeCounts, sectionCounts, currentSection,
    strokePercentages, sectionPercentages, aiSummary, call, attempt, fetches,
    waits, outcomes, resp, parsedRaw, err, bodyRead, responses, threw>>

\* The state before any handler has run: the locals hold nothing yet.
InitLocals ==
  /\ clock = 0
  /\ text = [r \in Reqs |-> Undefined]
  /\ lines = [r \in Reqs |-> <<>>]
  /\ idx = [r \in Reqs |-> 0]
  /\ totalYards = [r \in Reqs |-> 0]
  /\ sets = [r \in Reqs |-> <<>>]
  /\ strokeCounts = [r \in Reqs |-> InitialStrokeCounts]
  /\ sectionCounts = [r \in Reqs |-> InitialSectionCounts]
  /\ currentSection = [r \in Reqs |-> InitialSection]
  /\ strokePercentages = [r \in Reqs |-> <<>>]
  /\ sectionPercentages = [r \in Reqs |-> <<>>]
  /\ aiSummary = [r \in Reqs |-> NoSummary]
  /\ call = [r \in Reqs |-> 1]
  /\ attempt = [r \in Reqs |-> 0]
  /\ fetches = [r \in Reqs |-> 0]
  /\ waits = [r \in Reqs |-> <<>>]
  /\ outcomes = [r \in Reqs |-> <<>>]
  /\ resp = [r \in Reqs |-> NoResp]
  /\ parsedRaw = [r \in Reqs |-> Undefined]
  /\ err = [r \in Reqs |-> NoErr]
  /\ bodyRead = [r \in Reqs |-> FALSE]
  /\ responses = [r \in Reqs |-> <<>>]
  /\ threw = [r \in Reqs |-> FALSE]

\* One request, of any revision, method, credential and body; the second
\* slot stays idle.
Init ==
  /\ env \in Envs
  /\ variant \in [Reqs -> Variants]
  /\ variant[2] = "local"
  /\ method \in [Reqs -> Methods]
  /\ method[2] = "POST"
  /\ authorization \in [Reqs -> AuthHeaders]
  /\ authorization[2] = Undefined
  /\ body \in [Reqs -> HandlerBodies]
  /\ body[2] = NoBody
  /\ pc = [r \in Reqs |-> IF r = 1 THEN "method" ELSE "idle"]
  /\ InitLocals

\* One POST to the local parser that carries the right bearer token and a
\* text of up to MaxLines raw lines.
InitParser ==
  /\ env = [GITHUB_API_KEY |-> Str(SecretS), PROVIDER_API_KEY |-> Undefined,
            VERCEL_GIT_COMMIT_SHA |-> Undefined]
  /\ variant = [r \in Reqs |-> "local"]
  /\ method = [r \in Reqs |-> "POST"]
  /\ authorization = [r \in Reqs |-> IF r = 1 THEN Str(BearerS) ELSE Undefined]
  /\ \E t \in ParserTexts :
       body = [r \in Reqs |-> IF r = 1 THEN BodyOf(Str(t)) ELSE NoBody]
  /\ pc = [r \in Reqs |-> IF r = 1 THEN "method" ELSE "idle"]
  /\ InitLocals

\* One POST to the local parser that carries the right bearer token and one
\* of the scenario texts.
InitScenario ==
  /\ env = [GITHUB_API_KEY |-> Str(SecretS), PROVIDER_API_KEY |-> Undefined,
            VERCEL_GIT_COMMIT_SHA |-> Undefined]
  /\ variant = [r \in Reqs |-> "local"]
  /\ method = [r \in Reqs |-> "POST"]
  /\ authorization = [r \in Reqs |-> IF r = 1 THEN Str(BearerS) ELSE Undefined]
  /\ \E t \in ScenarioTexts :
       body = [r \in Reqs |-> IF r = 1 THEN BodyOf(Str(t)) ELSE NoBody]
  /\ pc = [r \in Reqs |-> IF r = 1 THEN "method" ELSE "idle"]
  /\ InitLocals

\* The texts of the two-request specification.
PairTexts ==
  {SegPlain, SegBlank, Join(<<SegWarm, SegBack>>, LF),
   Join(<<SegTwo, SegEasy>>, CRLF)}

\* Two POSTs to the local parser, both with the right bearer token.
InitPair ==
  /\ env = [GITHUB_API_KEY |-> Str(SecretS), PROVIDER_API_KEY |-> Undefined,
            VERCEL_GIT_COMMIT_SHA |-> Undefined]
  /\ variant = [r \in Reqs |-> "local"]
  /\ method = [r \in Reqs |-> "POST"]
  /\ authorization = [r \in Reqs |-> Str(BearerS)]
  /\ \E t1 \in PairTexts, t2 \in PairTexts :
       body = [r \in Reqs |-> BodyOf(Str(IF r = 1 THEN t1 ELSE t2))]
  /\ pc = [r \in Reqs |-> "method"]
  /\ InitLocals

\* The revisions and the bodies of the specification of concurrent
\* requests: the local parser and the first two-call revision in every
\* pairing, the current revision beside either of them; a text of one line,
\* one of two, and a text that is no string.
ConcurrentPairs ==
  ({"local", "twocall"} \X {"local", "twocall"})
    \cup ({"current"} \X {"local", "twocall"})

ConcurrentBodies ==
  {BodyOf(Str(SegPlain)), BodyOf(Str(Join(<<SegWarm, SegBack>>, LF))),
   BodyOf(Num(5))}

\* Two POSTs in flight at once, each to one of these revisions, with every
\* credential in place.
InitConcurrent ==
  /\ env = [GITHUB_API_KEY |-> Str(SecretS), PROVIDER_API_KEY |-> Str(<<"k">>),
            VERCEL_GIT_COMMIT_SHA |-> Undefined]
  /\ \E p \in ConcurrentPairs : variant = [r \in Reqs |-> p[r]]
  /\ method = [r \in Reqs |-> "POST"]
  /\ authorization = [r \in Reqs |-> Str(BearerS)]
  /\ body \in [Reqs -> ConcurrentBodies]
  /\ pc = [r \in Reqs |-> "method"]
  /\ InitLocals

\* One POST with a text to a revision whose analysis call goes through
\* fetchWithRetry, with the provider's key in place.
InitRetry ==
  /\ env = [GITHUB_API_KEY |-> Undefined, PROVIDER_API_KEY |-> Str(<<"k">>),
            VERCEL_GIT_COMMIT_SHA |-> Undefined]
  /\ \E v \in {"current", "retry"} :
       variant = [r \in Reqs |-> IF r = 1 THEN v ELSE "local"]
  /\ method = [r \in Reqs |-> "POST"]
  /\ authorization = [r \in Reqs |-> Undefined]
  /\ body = [r \in Reqs |-> IF r = 1 THEN BodyOf(Str(SegPlain)) ELSE NoBody]
  /\ pc = [r \in Reqs |-> IF r = 1 THEN "method" ELSE "idle"]
  /\ InitLocals

\* One POST with a text to the current revision, with the provider's key
\* in place.
InitNormalize ==
  /\ env = [GITHUB_API_KEY |-> Undefined, PROVIDER_API_KEY |-> Str(<<"k">>),
            VERCEL_GIT_COMMIT_SHA |-> Undefined]
  /\ variant = [r \in Reqs |-> IF r = 1 THEN "current" ELSE "local"]
  /\ method = [r \in Reqs |-> "POST"]
  /\ authorization = [r \in Reqs |-> Undefined]
  /\ body = [r \in Reqs |-> IF r = 1 THEN BodyOf(Str(SegPlain)) ELSE NoBody]
  /\ pc = [r \in Reqs |-> IF r = 1 THEN "method" ELSE "idle"]
  /\ InitLocals

(***************************************************************************)
(* Steps shared by the handlers.                                           *)
(***************************************************************************)
Goto(r, p) == pc' = [pc EXCEPT ![r] = p]

\* A response object that all requests share: every answer goes out through
\* the first request's.
SendToFirst(r, status, b) ==
  /\ responses' = [responses EXCEPT ![1] = Append(@, [status |-> status, body |-> b])]
  /\ Goto(r, "done")

\* return res.status(status).json(b)
Send(r, status, b) ==
  /\ responses' = [responses EXCEPT ![r] = Append(@, [status |-> status, body |-> b])]
  /\ Goto(r, "done")

\* An exception e is thrown: control goes to the catch clause, if any.
Raise(r, e) ==
  /\ err' = [err EXCEPT ![r] = e]
  /\ Goto(r, "catch")

TypeError == [kind |-> "type", status |-> 0]

\* The error texts of the validation answers.
MethodMessage(v) == IF v = "local" THEN "Use POST" ELSE "Method not allowed"

KeyMessage(v) ==
  IF v = "openai" THEN "Missing OpenAI API key" ELSE "Missing Gemini API key"

TextMessage(v) == IF v = "local" THEN "Missing text" ELSE "No text provided"

\* A validation answer without its return: the answer is sent and the
\* handler goes on to the outbound call.
RejectNoReturn(r, status, msg) ==
  /\ responses' = [responses EXCEPT ![r] = Append(@, [status |-> status, body |-> ErrorBody(msg)])]
  /\ Goto(r, "fetch")

\* A validation answer: return res.status(status).json({ error: msg })
Reject(r, status, msg) == Send(r, status, ErrorBody(msg))

\* A diagnostics route in every revision.
IsDiagnosticsAnywhere(v, m) == m = "GET"

\* if (req.method === "GET"), in the revisions that have the route
IsDiagnostics(v, m) == Cfg(v).diagnostics /\ m = "GET"

\* A method check that turns away GET only.
MethodRejectedGetOnly(m) == m = "GET"

\* if (req.method !== "POST")
MethodRejected(m) == m # "POST"

\* The method checks, in the order of the code.
CheckMethod(r) ==
  /\ pc[r] = "method"
  /\ IF IsDiagnostics(variant[r], method[r])
     THEN Send(r, 200, DiagnosticsBody(env))
     ELSE IF MethodRejected(method[r])
     THEN Reject(r, 405, MethodMessage(variant[r]))
     ELSE /\ Goto(r, "auth")
          /\ UNCHANGED responses
  /\ UNCHANGED <<requestVars, clock, text, parserVars, fetchVars, err,
                 bodyRead, threw>>

\* const token = auth.replace('Bearer ', '')
Token(auth) ==
  ReplaceFirst(IF Truthy(auth) THEN auth.s ELSE <<>>,
               <<"B", "e", "a", "r", "e", "r", " ">>)

\* A check that also turns away a header that does not begin with the
\* Bearer scheme.
BearerRejectedWithoutScheme(expected, auth) ==
  \/ ~Truthy(expected)
  \/ ~Truthy(auth)
  \/ ~StartsWith(auth.s, <<"B", "e", "a", "r", "e", "r", " ">>)
  \/ trim(Token(auth)) # trim(expected.s)

\* !expected || token.trim() !== expected.trim()
BearerRejected(expected, auth) ==
  \/ ~Truthy(expected)
  \/ trim(Token(auth)) # trim(expected.s)

\* The credential check: the bearer token of the local parser, the
\* configured provider key of the others.
CheckAuth(r) ==
  /\ pc[r] = "auth"
  /\ IF Cfg(variant[r]).bearer
     THEN IF BearerRejected(env.GITHUB_API_KEY, authorization[r])
          THEN Reject(r, 401, "Unauthorized")
          ELSE Goto(r, "body") /\ UNCHANGED responses
     ELSE IF ~Truthy(env.PROVIDER_API_KEY)
          THEN Reject(r, 401, KeyMessage(variant[r]))
          ELSE Goto(r, "body") /\ UNCHANGED responses
  /\ UNCHANGED <<requestVars, clock, text, parserVars, fetchVars, err,
                 bodyRead, threw>>

\* if (!text) / if (!text || !text.trim()): whether the text check answers
\* 400, for a text whose trim, if called, does not throw.
TextMissing(cfg, t) ==
  \/ ~Truthy(t)
  \/ cfg.trimCheck /\ trim(t.s) = <<>>

\* const { text } = req.body || {}, then the text check.
ReadBody(r) ==
  LET cfg == Cfg(variant[r])
      t == body[r].text
  IN /\ pc[r] = "body"
     /\ bodyRead' = [bodyRead EXCEPT ![r] = TRUE]
     /\ IF ~body[r].present /\ ~cfg.bodyDefault
        THEN \* destructuring undefined
             Raise(r, TypeError) /\ UNCHANGED <<text, responses>>
        ELSE /\ text' = [text EXCEPT ![r] = t]
             /\ IF Truthy(t) /\ cfg.trimCheck /\ t.type # "string"
                THEN \* text.trim is not a function
                     Raise(r, TypeError) /\ UNCHANGED responses
                ELSE IF TextMissing(cfg, t)
                THEN Reject(r, 400, TextMessage(variant[r])) /\ UNCHANGED err
                ELSE /\ Goto(r, IF cfg.engine = "parser" THEN "split" ELSE "fetch")
                     /\ UNCHANGED <<responses, err>>
     /\ UNCHANGED <<requestVars, clock, parserVars, fetchVars, threw>>

(***************************************************************************)
(* The local parser.                                                       *)
(***************************************************************************)
\* const lines = text.split(/\r?\n/).map(l => l.trim()).filter(Boolean)
\* and the declarations that follow it.  A text that is no string has no
\* split: the call throws.
Split(r) ==
  /\ pc[r] = "split"
  /\ IF text[r].type # "string"
     THEN Raise(r, TypeError) /\ UNCHANGED <<lines, idx>>
     ELSE /\ lines' = [lines EXCEPT ![r] = SplitLines(text[r].s)]
          /\ idx' = [idx EXCEPT ![r] = 1]
          /\ Goto(r, "loop")
          /\ UNCHANGED err
  /\ UNCHANGED <<requestVars, clock, text, totalYards, sets, strokeCounts,
                 sectionCounts, currentSection, strokePercentages,
                 sectionPercentages, aiSummary, fetchVars, bodyRead,
                 responses, threw>>

\* A test that takes every line for a match.
MatchedAlways(m) == TRUE

\* if (match)
Matched(m) == m.found

\* An iteration that extracts the yardage before it looks for a header: the
\* set goes to the section that was current before the line.
ProcessLineYardsFirst(r) ==
  /\ pc[r] = "loop"
  /\ idx[r] <= Len(lines[r])
  /\ LET line == lines[r][idx[r]]
         lower == toLowerCase(line)
         section == detectSection(lower, currentSection[r])
         m == match(line)
         stroke == detectStroke(lower)
     IN /\ currentSection' = [currentSection EXCEPT ![r] = section]
        /\ IF Matched(m)
           THEN /\ totalYards' = [totalYards EXCEPT ![r] = @ + Yards(m)]
                /\ strokeCounts' =
                     [strokeCounts EXCEPT ![r] = AddYards(@, stroke, Yards(m))]
                /\ sectionCounts' =
                     [sectionCounts EXCEPT ![r] = AddSectionYards(@, currentSection[r], Yards(m))]
                /\ sets' = [sets EXCEPT ![r] = Append(@, SetEntry(m, stroke, currentSection[r]))]
           ELSE UNCHANGED <<totalYards, strokeCounts, sectionCounts, sets>>
  /\ idx' = [idx EXCEPT ![r] = @ + 1]
  /\ UNCHANGED <<requestVars, clock, pc, text, lines, strokePercentages,
                 sectionPercentages, aiSummary, fetchVars, err, bodyRead,
                 responses, threw>>

\* One iteration of for (let line of lines).
ProcessLine(r) ==
  /\ pc[r] = "loop"
  /\ idx[r] <= Len(lines[r])
  /\ LET line == lines[r][idx[r]]
         lower == toLowerCase(line)
         section == detectSection(lower, currentSection[r])
         m == match(line)
         stroke == detectStroke(lower)
     IN /\ currentSection' = [currentSection EXCEPT ![r] = section]
        /\ IF Matched(m)
           THEN /\ totalYards' = [totalYards EXCEPT ![r] = @ + Yards(m)]
                /\ strokeCounts' =
                     [strokeCounts EXCEPT ![r] = AddYards(@, stroke, Yards(m))]
                /\ sectionCounts' =
                     [sectionCounts EXCEPT ![r] = AddSectionYards(@, section, Yards(m))]
                /\ sets' = [sets EXCEPT ![r] = Append(@, SetEntry(m, stroke, section))]
           ELSE UNCHANGED <<totalYards, strokeCounts, sectionCounts, sets>>
  /\ idx' = [idx EXCEPT ![r] = @ + 1]
  /\ UNCHANGED <<requestVars, clock, pc, text, lines, strokePercentages,
                 sectionPercentages, aiSummary, fetchVars, err, bodyRead,
                 responses, threw>>

\* After the loop: strokePercentages, sectionPercentages and aiSummary.
Summarize(r) ==
  /\ pc[r] = "loop"
  /\ idx[r] > Len(lines[r])
  /\ LET strokePct == Percentages(strokeCounts[r], StrokeOrder, totalYards[r])
     IN /\ strokePercentages' = [strokePercentages EXCEPT ![r] = strokePct]
        /\ aiSummary' =
             [aiSummary EXCEPT ![r] = Summary(Len(sets[r]), totalYards[r], strokePct)]
  /\ sectionPercentages' =
       [sectionPercentages EXCEPT
          ![r] = Percentages(sectionCounts[r], SectionOrder, totalYards[r])]
  /\ Goto(r, "send")
  /\ UNCHANGED <<requestVars, clock, text, lines, idx, totalYards, sets,
                 strokeCounts, sectionCounts, currentSection, fetchVars, err,
                 bodyRead, responses, threw>>

\* res.status(200).json({ id: crypto.randomUUID(),
\*                        date: new Date().toISOString(), ... })
\* The identifier is any UUID; the date is the clock, which never runs back.
SendWorkout(r) ==
  /\ pc[r] = "send"
  /\ \E id \in UUIDs, now \in clock..MaxClock :
       /\ clock' = now
       /\ Send(r, 200,
               WorkoutBody(id, now, totalYards[r], sets[r], aiSummary[r],
                           strokePercentages[r], sectionPercentages[r]))
  /\ UNCHANGED <<requestVars, text, parserVars, fetchVars, err, bodyRead, threw>>

(***************************************************************************)
(* The outbound calls of the other revisions.                              *)
(***************************************************************************)
\* A network failure: the TypeError "fetch failed" that fetch rejects with.
NetworkError == [kind |-> "network", status |-> 0]

\* What an outbound call did: it threw, or it returned a response.
Thrown == [thrown |-> TRUE, response |-> NoResp]

Returned(o) == [thrown |-> FALSE, response |-> o]

\* A failure of the last attempt that is dropped: control goes on as if the
\* call had returned.
RethrowSwallowed(r) == Goto(r, "response") /\ UNCHANGED err

\* throw err: the failure of the call leaves fetchWithRetry (or the plain
\* await) and reaches the handler.
Rethrow(r) == Raise(r, NetworkError)

\* A loop whose catch clause never rethrows.
LastAttemptNever(a) == FALSE

\* A loop that also tries again after a body without candidates.
RetriedOrEmpty(o) == o.status = 503 \/ o.body = "nocandidates"

\* The negation of `res.status !== 503`: the response after which
\* fetchWithRetry waits and tries again instead of returning it.
Retried(o) == o.status = 503

\* attempt === retries - 1
LastAttempt(a) == a = Retries - 1

\* One fetch (or one call of the OpenAI client), with what follows it up to
\* the next await: the loop of fetchWithRetry for the revisions that use
\* it, the plain await for the others.
FetchFrom(r, answers) ==
  LET cfg == Cfg(variant[r])
      looping == cfg.retry /\ call[r] = 1 /\ attempt[r] < Retries
  IN /\ pc[r] = "fetch"
     /\ fetches' = [fetches EXCEPT ![r] = @ + 1]
     /\ \/ \* the call throws: a network failure
           /\ outcomes' = [outcomes EXCEPT ![r] = Append(@, Thrown)]
           /\ IF looping /\ ~LastAttempt(attempt[r])
              THEN \* catch (err) { if (attempt === retries - 1) throw err; }
                   /\ attempt' = [attempt EXCEPT ![r] = @ + 1]
                   /\ UNCHANGED <<pc, err>>
              ELSE /\ Rethrow(r)
                   /\ UNCHANGED attempt
           /\ UNCHANGED resp
        \/ \* the call returns a response
           \E o \in answers :
             /\ outcomes' = [outcomes EXCEPT ![r] = Append(@, Returned(o))]
             /\ IF cfg.engine = "sdk" /\ (o.status # 200 \/ o.body = "badjson")
                THEN \* the client throws on a failed call
                     /\ Raise(r, [kind |-> "sdk", status |-> o.status])
                     /\ UNCHANGED <<resp, attempt>>
                ELSE IF looping /\ Retried(o)
                THEN \* res stays inside fetchWithRetry, which waits
                     /\ Goto(r, "backoff")
                     /\ UNCHANGED <<resp, err, attempt>>
                ELSE \* return res: the handler's resp
                     /\ resp' = [resp EXCEPT ![r] = o]
                     /\ Goto(r, "response")
                     /\ UNCHANGED <<err, attempt>>
     /\ UNCHANGED <<requestVars, clock, text, parserVars, call, waits,
                    parsedRaw, bodyRead, responses, threw>>

\* A fetch that the provider answers with any of FetchResponses.
Fetch(r) == FetchFrom(r, FetchResponses)

\* A fetch that the provider answers with any of DocumentResponses.
FetchDocument(r) == FetchFrom(r, DocumentResponses)

RECURSIVE Pow2(_)
Pow2(n) == IF n = 0 THEN 1 ELSE 2 * Pow2(n - 1)

\* const delay = 400 * Math.pow(2, attempt)
Delay(a) == BaseDelay * Pow2(a)

\* await new Promise((resolve) => setTimeout(resolve, delay)), then the
\* next iteration of the loop.
Backoff(r) ==
  /\ pc[r] = "backoff"
  /\ waits' = [waits EXCEPT ![r] = Append(@, Delay(attempt[r]))]
  /\ attempt' = [attempt EXCEPT ![r] = @ + 1]
  /\ Goto(r, "fetch")
  /\ UNCHANGED <<requestVars, clock, text, parserVars, call, fetches,
                 outcomes, resp, parsedRaw, err, bodyRead, responses, threw>>

\* The error text of the answer to a body without candidates.
NoCandidatesMessage(status) ==
  IF status = 503
  THEN "Gemini is temporarily unavailable. Please try again shortly."
  ELSE "Gemini returned no output"

\* { error: ..., details: data }: the answer to a body without
\* candidates, with the provider's body as details.
NoCandidatesBody(status, o) ==
  [ErrorBody(NoCandidatesMessage(status)) EXCEPT
     !.details = [kind |-> "data", status |-> 0, body |-> o.body]]

\* A summary without its default text.
SummaryOfNoDefault(o) ==
  IF trim(TextOf(o)) # <<>> THEN "provider" ELSE ""

\* summaryData?.candidates?.[0]?.content?.parts?.[0]?.text?.trim()
\*   || "No summary available."
SummaryOf(o) ==
  IF trim(TextOf(o)) # <<>> THEN "provider" ELSE "No summary available."

\* What the handler does with the response of a call, up to its answer or
\* its next call.
HandleResponse(r) ==
  LET cfg == Cfg(variant[r])
      o == resp[r]
  IN /\ pc[r] = "response"
     /\ IF call[r] = 1 /\ cfg.checkOk /\ o.status # 200
        THEN \* throw new Error(`Gemini API error ${resp.status}: ${errText}`)
             /\ Raise(r, [kind |-> "http", status |-> o.status])
             /\ UNCHANGED <<call, parsedRaw, responses>>
        ELSE IF o.body = "badjson"
        THEN \* await resp.json() rejects
             /\ Raise(r, [kind |-> "json", status |-> o.status])
             /\ UNCHANGED <<call, parsedRaw, responses>>
        ELSE IF call[r] = 1 /\ cfg.noCandidates # 0 /\ o.body = "nocandidates"
        THEN /\ Send(r, cfg.noCandidates, NoCandidatesBody(cfg.noCandidates, o))
             /\ UNCHANGED <<call, parsedRaw, err>>
        ELSE IF call[r] = 1 /\ cfg.summaryCall
        THEN /\ parsedRaw' = [parsedRaw EXCEPT ![r] = RawOutput(variant[r], o)]
             /\ call' = [call EXCEPT ![r] = 2]
             /\ Goto(r, "fetch")
             /\ UNCHANGED <<err, responses>>
        ELSE IF cfg.engine = "sdk"
        THEN \* the client's completion: no rawOutput, the message as it is
             /\ Send(r, 200, CompletionBody(TextOf(o)))
             /\ UNCHANGED <<call, parsedRaw, err>>
        ELSE IF call[r] = 1
        THEN /\ parsedRaw' = [parsedRaw EXCEPT ![r] = RawOutput(variant[r], o)]
             /\ Send(r, 200, ResultBody(variant[r], o))
             /\ UNCHANGED <<call, err>>
        ELSE /\ Send(r, 200, AnalysisBody(parsedRaw[r], SummaryOf(o)))
             /\ UNCHANGED <<call, parsedRaw, err>>
     /\ UNCHANGED <<requestVars, clock, text, parserVars, attempt, fetches,
                    waits, outcomes, resp, bodyRead, threw>>

\* A catch clause without its message table: one text for every failure.
CatchMessageGeneric(v, e) ==
  IF v \in {"current", "retry", "twocall2"}
  THEN "An unexpected error occurred. Please try again."
  ELSE "Server error"

\* The text the catch clause answers.  The revisions with a message table
\* look for "503" and "fetch failed" in err.message; the error text of the
\* provider is taken to contain neither.
CatchMessage(v, e) ==
  IF v \in {"current", "retry", "twocall2"}
  THEN IF e.kind = "http" /\ e.status = 503
       THEN "Gemini servers are currently overloaded. Try again shortly."
       ELSE IF e.kind = "network"
       THEN "Network error - please check your connection."
       ELSE "An unexpected error occurred. Please try again."
  ELSE "Server error"

\* A message of the error that leaves the upstream status out.
DetailsWithoutStatus(e, o) ==
  [kind |-> e.kind, status |-> 0,
   body |-> IF e.kind = "http" THEN o.body ELSE "none"]

\* err.message: for a response that is not OK,
\* `Gemini API error ${resp.status}: ${errText}`, errText being the body of
\* the response; for any other failure, a text that names the failure.
Details(e, o) ==
  [kind |-> e.kind, status |-> e.status,
   body |-> IF e.kind = "http" THEN o.body ELSE "none"]

\* { error: message, details: text }; the revisions without a message table
\* have no details field.
CatchBody(v, e, o) ==
  [ErrorBody(CatchMessage(v, e)) EXCEPT
     !.details = IF v \in {"current", "retry", "twocall2"}
                 THEN Details(e, o) ELSE NoDetails]

\* catch (err) { ... return res.status(500).json({ error: message, ... }) }
Catch(r) ==
  /\ pc[r] = "catch"
  /\ Cfg(variant[r]).try
  /\ Send(r, 500, CatchBody(variant[r], err[r], resp[r]))
  /\ UNCHANGED <<requestVars, clock, text, parserVars, fetchVars, err,
                 bodyRead, threw>>

\* No try/catch: the exception leaves the handler, and nothing is sent.
Escape(r) ==
  /\ pc[r] = "catch"
  /\ ~Cfg(variant[r]).try
  /\ threw' = [threw EXCEPT ![r] = TRUE]
  /\ Goto(r, "crashed")
  /\ UNCHANGED <<requestVars, clock, text, parserVars, fetchVars, err,
                 bodyRead, responses>>

(***************************************************************************)
(* Specifications.                                                         *)
(***************************************************************************)
Next ==
  \E r \in Reqs :
    \/ CheckMethod(r)
    \/ CheckAuth(r)
    \/ ReadBody(r)
    \/ Split(r)
    \/ ProcessLine(r)
    \/ Summarize(r)
    \/ SendWorkout(r)
    \/ Fetch(r)
    \/ Backoff(r)
    \/ HandleResponse(r)
    \/ Catch(r)
    \/ Escape(r)

\* One request of any revision.
Spec == Init /\ [][Next]_vars

NextParser ==
  \E r \in Reqs :
    \/ CheckMethod(r)
    \/ CheckAuth(r)
    \/ ReadBody(r)
    \/ Split(r)
    \/ ProcessLine(r)
    \/ Summarize(r)
    \/ SendWorkout(r)

\* One accepted request to the local parser.
SpecParser == InitParser /\ [][NextParser]_vars

\* Two accepted requests to the local parser, each with a text of its own,
\* handled in any interleaving.
SpecPair == InitPair /\ [][NextParser]_vars

\* One accepted request to the local parser that carries a scenario text.
SpecScenario == InitScenario /\ [][NextParser]_vars

\* Two requests handled at once, their steps interleaved in any order.
SpecConcurrent == InitConcurrent /\ [][Next]_vars

NextCall ==
  \E r \in Reqs :
    \/ CheckMethod(r)
    \/ CheckAuth(r)
    \/ ReadBody(r)
    \/ Fetch(r)
    \/ Backoff(r)
    \/ HandleResponse(r)
    \/ Catch(r)

\* One accepted request to a revision with fetchWithRetry.  What
\* fetchWithRetry awaits comes in the end: a fetch settles, by a response or
\* by a failure, and a timer fires.
SpecRetry ==
  /\ InitRetry
  /\ [][NextCall]_vars
  /\ \A r \in Reqs : WF_vars(Fetch(r)) /\ WF_vars(Backoff(r))

NextNormalize ==
  \E r \in Reqs :
    \/ CheckMethod(r)
    \/ CheckAuth(r)
    \/ ReadBody(r)
    \/ FetchDocument(r)
    \/ HandleResponse(r)
    \/ Catch(r)

\* One accepted request to the current revision, answered by the provider
\* with a JSON document of any shape.
SpecNormalize == InitNormalize /\ [][NextNormalize]_vars

(***************************************************************************)
(* Properties of the local parser.                                         *)
(***************************************************************************)
\* The request has been answered 200 by the local parser.
Answered200(r) ==
  /\ pc[r] = "done"
  /\ responses[r] # <<>>
  /\ responses[r][1].status = 200
  /\ responses[r][1].body.kind = "workout"

\* The last position before k, and the first after k, that holds no white
\* space (0 when there is none).
PrevInk(line, k) ==
  LET js == {j \in 1..(k - 1) : ~IsSpace(line[j])}
  IN IF js = {} THEN 0 ELSE CHOOSE j \in js : \A i \in js : j >= i

NextInk(line, k) ==
  LET js == {j \in (k + 1)..Len(line) : ~IsSpace(line[j])}
  IN IF js = {} THEN 0 ELSE CHOOSE j \in js : \A i \in js : j <= i

\* The positions of the letters x that stand between two numbers.
TimesSigns(line) ==
  {k \in 1..Len(line) :
     /\ line[k] \in {"x", "X"}
     /\ PrevInk(line, k) # 0 /\ IsDigit(line[PrevInk(line, k)])
     /\ NextInk(line, k) # 0 /\ IsDigit(line[NextInk(line, k)])}

\* The number whose last digit is at position b, and the one whose first
\* digit is at position a: all the digits around it, read in base ten.
RECURSIVE Power10(_)
Power10(n) == IF n = 0 THEN 1 ELSE 10 * Power10(n - 1)

NumberEndingAt(line, b) ==
  LET a == CHOOSE i \in 1..b :
             /\ \A j \in i..b : IsDigit(line[j])
             /\ (i = 1 \/ ~IsDigit(line[i - 1]))
  IN SumSeq([j \in 1..(b - a + 1) |-> DigitVal(line[a + j - 1]) * Power10(b - a + 1 - j)])

NumberStartingAt(line, a) ==
  LET b == CHOOSE i \in a..Len(line) :
             /\ \A j \in a..i : IsDigit(line[j])
             /\ (i = Len(line) \/ ~IsDigit(line[i + 1]))
  IN SumSeq([j \in 1..(b - a + 1) |-> DigitVal(line[a + j - 1]) * Power10(b - a + 1 - j)])

\* reps x distance of the first rep x distance pattern of a line, 0 when the
\* line has none.
FirstPatternYards(line) ==
  IF TimesSigns(line) = {} THEN 0
  ELSE LET k == CHOOSE i \in TimesSigns(line) : \A j \in TimesSigns(line) : i <= j
       IN NumberEndingAt(line, PrevInk(line, k))
            * NumberStartingAt(line, NextInk(line, k))

\* The sum of FirstPatternYards over the first n lines.
PatternYardsUpTo(ls, n) == SumSeq([i \in 1..n |-> FirstPatternYards(ls[i])])

\* C1: the total yardage of the local parser is the sum, over the non-empty
\* trimmed lines, of reps x distance of the first pattern of the line: after
\* every processed prefix, and in the distanceYards of the answer.
C1_TotalIsSumOfFirstPatterns ==
  \A r \in Reqs :
    /\ pc[r] \in {"loop", "send"}
         => totalYards[r] = PatternYardsUpTo(lines[r], idx[r] - 1)
    /\ Answered200(r)
         => responses[r][1].body.distanceYards
              = PatternYardsUpTo(lines[r], Len(lines[r]))

\* An answered text with a line of two patterns and a line of none.
C1_Witness ==
  \E r \in Reqs :
    /\ Answered200(r)
    /\ responses[r][1].body.distanceYards > 0
    /\ \E i \in 1..Len(lines[r]) : Cardinality(TimesSigns(lines[r][i])) > 1
    /\ \E i \in 1..Len(lines[r]) : TimesSigns(lines[r][i]) = {}

\* The keys of a counter object that a step changes.
Changed(before, after) == {k \in DOMAIN before : before[k] # after[k]}

\* C2: after every step of the parser the total yardage is the sum of the
\* section accumulators and the sum of the stroke accumulators, and a step
\* that adds yards adds them to one section and to one stroke.
C2_TotalsAgree ==
  [][\A r \in Reqs :
       LET yards == totalYards'[r] - totalYards[r]
       IN /\ totalYards'[r] = SumSeq(Values(sectionCounts'[r], SectionOrder))
          /\ totalYards'[r] = SumSeq(Values(strokeCounts'[r], StrokeOrder))
          /\ \A k \in Changed(sectionCounts[r], sectionCounts'[r]) :
               sectionCounts'[r][k] = sectionCounts[r][k] + yards
          /\ \A k \in Changed(strokeCounts[r], strokeCounts'[r]) :
               strokeCounts'[r][k] = strokeCounts[r][k] + yards
          /\ yards > 0 =>
               /\ Cardinality(Changed(sectionCounts[r], sectionCounts'[r])) = 1
               /\ Cardinality(Changed(strokeCounts[r], strokeCounts'[r])) = 1
          /\ yards = 0 =>
               /\ sectionCounts'[r] = sectionCounts[r]
               /\ strokeCounts'[r] = strokeCounts[r]]_vars

\* In the middle of the loop, after yards went to two strokes and to two
\* sections.
C2_Witness ==
  \E r \in Reqs :
    /\ pc[r] = "loop"
    /\ idx[r] <= Len(lines[r])
    /\ Len(sets[r]) = 2
    /\ sets[r][1].stroke # sets[r][2].stroke
    /\ sets[r][1].section # sets[r][2].section
    /\ sets[r][1].yards > 0 /\ sets[r][2].yards > 0

\* The numerators of a percentage map.
Numerators(pct) == [i \in 1..Len(pct) |-> pct[i].val.num]

\* A percentage map of a workout of the given total: no entry divides by
\* zero, every entry is a fraction of the total in [0,1], and the entries sum
\* to 1 when the total is positive; there is no entry when it is 0.
WellFormedPercentages(pct, total) ==
  /\ \A i \in 1..Len(pct) :
       /\ pct[i].val.den # 0
       /\ pct[i].val.den = total
       /\ 0 <= pct[i].val.num /\ pct[i].val.num <= pct[i].val.den
  /\ total > 0 => SumSeq(Numerators(pct)) = total
  /\ total = 0 => pct = <<>>

\* C3: both percentage maps, as computed and as answered, hold values in
\* [0,1] that sum to 1 when the total yardage is positive; when it is 0 no
\* division is performed and no percentage is returned.
C3_PercentagesWellFormed ==
  \A r \in Reqs :
    /\ pc[r] \in {"send", "done"} =>
         /\ WellFormedPercentages(strokePercentages[r], totalYards[r])
         /\ WellFormedPercentages(sectionPercentages[r], totalYards[r])
    /\ Answered200(r) =>
         /\ WellFormedPercentages(responses[r][1].body.strokePercentages,
                                  responses[r][1].body.distanceYards)
         /\ WellFormedPercentages(responses[r][1].body.sectionPercentages,
                                  responses[r][1].body.distanceYards)

\* An answer whose yardage is split over two strokes and two sections, with
\* a line of the text that matched for 0 yards.
C3_Witness ==
  \E r \in Reqs :
    /\ Answered200(r)
    /\ Len(responses[r][1].body.strokePercentages) = 2
    /\ Len(responses[r][1].body.sectionPercentages) = 2
    /\ \E i \in 1..Len(sets[r]) : sets[r][i].yards = 0

\* A body without the two fields that are stamped when it is sent.
CoreBody(b) == [b EXCEPT !.id = "", !.date = 0]

\* C4, as amended: two POSTs to the local parser that carry the same text
\* are answered with bodies that agree in every field but id and date.
C4_SameTextSameAnalysis ==
  \A r1 \in Reqs, r2 \in Reqs :
    (Answered200(r1) /\ Answered200(r2) /\ body[r1].text = body[r2].text)
      => CoreBody(responses[r1][1].body) = CoreBody(responses[r2][1].body)

\* C4, as claimed: two POSTs to the local parser that carry the same text
\* are answered with identical bodies.
C4_SameTextSameBody ==
  \A r1 \in Reqs, r2 \in Reqs :
    (Answered200(r1) /\ Answered200(r2) /\ body[r1].text = body[r2].text)
      => responses[r1][1].body = responses[r2][1].body

\* Two answered requests with the same text, which has yardage.
C4_Witness ==
  /\ Answered200(1) /\ Answered200(2)
  /\ body[1].text = body[2].text
  /\ responses[1][1].body.distanceYards > 0
  /\ responses[1][1].body.id # responses[2][1].body.id

(***************************************************************************)
(* Properties of the HTTP boundary.                                        *)
(***************************************************************************)
\* The handler has returned or thrown.
Finished(r) == pc[r] \in {"done", "crashed"}

\* The only answer of a finished request has the given status.
AnsweredOnce(r, status) ==
  /\ pc[r] = "done"
  /\ Len(responses[r]) = 1
  /\ responses[r][1].status = status

\* A body that is there and whose text is missing, empty or blank.
BlankText(b) ==
  /\ b.present
  /\ \/ b.text.type = "undefined"
     \/ b.text.type = "string" /\ \A i \in 1..Len(b.text.s) : IsSpace(b.text.s[i])

\* C5, as claimed: a POST that passed the credential check and whose text is
\* missing, empty or blank is answered 400, the parser has not run and no
\* outbound call was made, in every revision.
C5_BlankTextIs400 ==
  \A r \in Reqs :
    (Finished(r) /\ bodyRead[r] /\ BlankText(body[r]))
      => /\ AnsweredOnce(r, 400)
         /\ idx[r] = 0
         /\ fetches[r] = 0

BearerPrefix == <<"B", "e", "a", "r", "e", "r", " ">>

\* The token a header carries: what follows the Bearer scheme, or the whole
\* header when it names no scheme.
CarriedToken(h) ==
  IF Len(h) >= Len(BearerPrefix) /\ SubSeq(h, 1, Len(BearerPrefix)) = BearerPrefix
  THEN SubSeq(h, Len(BearerPrefix) + 1, Len(h))
  ELSE h

\* The header is absent, the secret is unset, or the header carries a token
\* that differs from the secret by more than surrounding white space.
Unauthenticated(h, secret) ==
  \/ h.type = "undefined"
  \/ secret.type = "undefined"
  \/ trim(CarriedToken(h.s)) # trim(secret.s)

\* C6, as claimed: the local parser answers 401 to a POST whose
\* Authorization header is absent or carries another token than the secret,
\* before it reads the body, whatever the secret is.
C6_UnauthenticatedIs401 ==
  \A r \in Reqs :
    (/\ variant[r] = "local"
     /\ method[r] = "POST"
     /\ Finished(r)
     /\ Unauthenticated(authorization[r], env.GITHUB_API_KEY))
      => AnsweredOnce(r, 401) /\ ~bodyRead[r]

\* C7, as claimed: no exception leaves a handler, and a handler that has
\* finished has sent exactly one response.
C7_OneResponseNoEscape ==
  \A r \in Reqs :
    /\ ~threw[r]
    /\ Len(responses[r]) <= 1
    /\ Finished(r) => Len(responses[r]) = 1

\* The revisions that answer GET with the diagnostics payload.
DiagnosticsRevisions == {"current", "retry", "single", "twocall", "twocall2"}

\* build: process.env.VERCEL_GIT_COMMIT_SHA || "local"
BuildIdentifier ==
  IF env.VERCEL_GIT_COMMIT_SHA.type = "string" /\ env.VERCEL_GIT_COMMIT_SHA.s # <<>>
  THEN env.VERCEL_GIT_COMMIT_SHA.s
  ELSE <<"l", "o", "c", "a", "l">>

\* C8, as amended: a GET is answered 200 with ok: true and the build
\* identifier by the revisions that have a diagnostics route, and 405 by the
\* POST-only revisions (the local parser, gemini15, openai).
C8_GetDiagnosticsOr405 ==
  \A r \in Reqs :
    (method[r] = "GET" /\ pc[r] # "method")
      => IF variant[r] \in DiagnosticsRevisions
         THEN /\ AnsweredOnce(r, 200)
              /\ responses[r][1].body.ok
              /\ responses[r][1].body.build = BuildIdentifier
         ELSE AnsweredOnce(r, 405)

\* C8, as claimed: every revision answers a GET with 200, ok: true and a
\* build identifier.
C8_GetIsDiagnostics ==
  \A r \in Reqs :
    (method[r] = "GET" /\ pc[r] # "method")
      => /\ AnsweredOnce(r, 200)
         /\ responses[r][1].body.ok
         /\ responses[r][1].body.build # <<>>

\* A GET answered with the diagnostics of a build that has a commit.
C8_Witness ==
  \E r \in Reqs :
    /\ method[r] = "GET"
    /\ variant[r] = "current"
    /\ AnsweredOnce(r, 200)
    /\ responses[r][1].body.ok
    /\ responses[r][1].body.build = <<"c">>

\* C9: a request whose method is neither GET nor POST is answered 405 and
\* nothing else is done for it, whatever its headers, its body and the
\* configuration are.
C9_OtherMethodIs405 ==
  \A r \in Reqs :
    (method[r] \notin {"GET", "POST"} /\ pc[r] # "method")
      => /\ AnsweredOnce(r, 405)
         /\ ~bodyRead[r]
         /\ idx[r] = 0
         /\ fetches[r] = 0
         /\ ~threw[r]

\* A PUT to the local parser, without any credential and with a text,
\* answered 405.
C9_Witness ==
  \E r \in Reqs :
    /\ method[r] = "PUT"
    /\ variant[r] = "local"
    /\ authorization[r] = Undefined
    /\ Truthy(body[r].text)
    /\ AnsweredOnce(r, 405)

\* C10: a request answered 400, 401 or 405 has issued no outbound call, at
\* the time of the answer and at any time after it.
C10_RejectedWithoutFetch ==
  \A r \in Reqs :
    \A i \in 1..Len(responses[r]) :
      responses[r][i].status \in {400, 401, 405} => fetches[r] = 0

\* A revision that calls the provider, with its key configured, answering
\* 400 to a blank text.
C10_Witness ==
  \E r \in Reqs :
    /\ variant[r] = "current"
    /\ Truthy(env.PROVIDER_API_KEY)
    /\ AnsweredOnce(r, 400)
    /\ body[r].text.type = "string"

(***************************************************************************)
(* Properties of the section state machine.                                *)
(***************************************************************************)
\* The section keywords with the section each selects, in the priority order
\* warm, pre, main, cool.
SectionKeywords ==
  <<[kw |-> <<"w", "a", "r", "m">>, section |-> "warmup"],
    [kw |-> <<"p", "r", "e">>, section |-> "preset"],
    [kw |-> <<"m", "a", "i", "n">>, section |-> "mainset"],
    [kw |-> <<"c", "o", "o", "l">>, section |-> "cooldown"]>>

\* Whether the word occurs somewhere in the string.
Contains(str, word) ==
  \E off \in 0..(Len(str) - Len(word)) :
    \A j \in 1..Len(word) : str[off + j] = word[j]

\* The keywords, by priority, that the lower-cased line contains.
KeywordHits(line) ==
  {i \in 1..Len(SectionKeywords) :
     Contains(toLowerCase(line), SectionKeywords[i].kw)}

\* The section after a line: that of the contained keyword of highest
\* priority, the section before the line when it contains none.
SectionAfter(line, before) ==
  IF KeywordHits(line) = {} THEN before
  ELSE SectionKeywords[CHOOSE i \in KeywordHits(line) :
                         \A j \in KeywordHits(line) : i <= j].section

\* The request processes the line at idx in this step.
ProcessesLine(r) == pc[r] = "loop" /\ idx'[r] = idx[r] + 1

\* C13: the section after a processed line is the one of the first keyword,
\* in the order warm, pre, main, cool, that the lower-cased line contains
\* (the section before it when there is none); a line with both "warm" and
\* "main" sets it to warmup.
C13_FirstKeywordWins ==
  [][\A r \in Reqs :
       ProcessesLine(r) =>
         LET line == lines[r][idx[r]]
         IN /\ currentSection'[r] = SectionAfter(line, currentSection[r])
            /\ (Contains(toLowerCase(line), <<"w", "a", "r", "m">>)
                 /\ Contains(toLowerCase(line), <<"m", "a", "i", "n">>))
                 => currentSection'[r] = "warmup"]_vars

\* After a cooldown line, a line that says "Main" before it says "warm" has
\* been processed and its yardage went to the warmup.
C13_Witness ==
  \E r \in Reqs :
    /\ pc[r] = "loop"
    /\ idx[r] = 3
    /\ lines[r][1] = KwSegCool
    /\ lines[r][2] = KwSegMainWarm
    /\ currentSection[r] = "warmup"
    /\ sets[r][1].section = "cooldown"
    /\ sets[r][2].section = "warmup"

\* No line among the first n contains a section keyword.
NoKeywordUpTo(ls, n) == \A i \in 1..n : KeywordHits(ls[i]) = {}

\* A percentage of one half.
Half(val) == 2 * val.num = val.den

\* C14: while no processed line contains a section keyword the current
\* section is the main set and every detected set and all the yardage are
\* attributed to it; "4x50 back\n4x50 breast" is answered with both sets in
\* the main set and strokePercentages backstroke 0.5 and breaststroke 0.5.
C14_StartsInMainSet ==
  \A r \in Reqs :
    /\ (pc[r] \in {"loop", "send", "done"}
         /\ NoKeywordUpTo(lines[r], idx[r] - 1)) =>
         /\ currentSection[r] = "mainset"
         /\ \A i \in 1..Len(sets[r]) : sets[r][i].section = "mainset"
         /\ sectionCounts[r]["mainset"] = totalYards[r]
    /\ (Answered200(r) /\ body[r].text = Str(ScenarioNoHeader)) =>
         LET b == responses[r][1].body
         IN /\ Len(b.sets) = 2
            /\ \A i \in 1..Len(b.sets) : b.sets[i].section = "mainset"
            /\ Len(b.strokePercentages) = 2
            /\ b.strokePercentages[1].key = "backstroke"
            /\ Half(b.strokePercentages[1].val)
            /\ b.strokePercentages[2].key = "breaststroke"
            /\ Half(b.strokePercentages[2].val)
            /\ Len(b.sectionPercentages) = 1
            /\ b.sectionPercentages[1].key = "mainset"

\* The sheet without headers, answered with its 400 yards.
C14_Witness ==
  \E r \in Reqs :
    /\ Answered200(r)
    /\ body[r].text = Str(ScenarioNoHeader)
    /\ responses[r][1].body.distanceYards = 400
    /\ Len(responses[r][1].body.sets) = 2

\* C15, as claimed: every processed line, with or without a rep x distance
\* pattern, is recorded in the output in its place: the list the answer
\* carries has one entry per line, a line without a pattern being the entry
\* that adds 0 yards.
C15_EveryLineRecorded ==
  \A r \in Reqs :
    /\ (pc[r] \in {"loop", "send"} \/ Answered200(r)) =>
         /\ Len(sets[r]) = idx[r] - 1
         /\ \A i \in 1..Len(sets[r]) :
              sets[r][i].yards = FirstPatternYards(lines[r][i])
    /\ Answered200(r) => Len(responses[r][1].body.sets) = Len(lines[r])

\* The fields every 200 to a POST is said to carry, aiTip or aiSummary
\* besides.
ContractFields == {"totalYards", "sectionYards", "strokePercentages"}

\* A percentage of 1.
Whole(val) == val.num = val.den /\ val.den # 0

\* C16, as claimed: every 200 of the local parser to a POST has the fields
\* totalYards, sectionYards, strokePercentages and aiTip or aiSummary, the
\* percentages being keyed by the fixed stroke names; the sheet of three
\* titled sections is answered with a total of 1500 yards and freestyle 1.0.
C16_AnswerHasContractFields ==
  \A r \in Reqs :
    (method[r] = "POST" /\ Answered200(r)) =>
      LET b == responses[r][1].body
      IN /\ ContractFields \subseteq Range(WorkoutKeys)
         /\ "aiTip" \in Range(WorkoutKeys) \/ "aiSummary" \in Range(WorkoutKeys)
         /\ \A i \in 1..Len(b.strokePercentages) :
              b.strokePercentages[i].key \in Range(StrokeOrder)
         /\ body[r].text = Str(ScenarioSix) =>
              /\ b.distanceYards = 1500
              /\ Len(b.strokePercentages) = 1
              /\ b.strokePercentages[1].key = "freestyle"
              /\ Whole(b.strokePercentages[1].val)

\* The stroke with the largest accumulator, the first such stroke in the
\* order of declaration when several have it.
DominantStroke(counts) ==
  StrokeOrder[CHOOSE i \in 1..Len(StrokeOrder) :
                \A j \in 1..Len(StrokeOrder) :
                  /\ counts[StrokeOrder[j]] <= counts[StrokeOrder[i]]
                  /\ j < i => counts[StrokeOrder[j]] < counts[StrokeOrder[i]]]

\* C17, as claimed: the stroke named in the summary sentence, as computed
\* and as answered, is the stroke with the largest yardage accumulator, the
\* first in declaration order among equals.
C17_SummaryNamesDominantStroke ==
  \A r \in Reqs :
    /\ pc[r] = "send" => aiSummary[r].stroke = DominantStroke(strokeCounts[r])
    /\ Answered200(r) =>
         responses[r][1].body.aiSummary.stroke = DominantStroke(strokeCounts[r])

\* The hundredths nearest to num / den, halves rounded up.
Hundredths(num, den) == (200 * num + den) \div (2 * den)

\* The value of an entry is a number of two decimal places, the nearest to
\* its accumulator divided by the total.
RoundedToCents(entry, count, total) ==
  /\ entry.val.den # 0
  /\ 100 * entry.val.num = Hundredths(count, total) * entry.val.den

\* C20, as claimed: every entry of the two percentage maps of an answer is
\* its accumulator divided by the total yardage and rounded to 2 decimal
\* places (0.33 for one of three equal strokes).
C20_PercentagesRounded ==
  \A r \in Reqs :
    Answered200(r) =>
      LET b == responses[r][1].body
      IN /\ \A i \in 1..Len(b.strokePercentages) :
              RoundedToCents(b.strokePercentages[i],
                             strokeCounts[r][b.strokePercentages[i].key],
                             b.distanceYards)
         /\ \A i \in 1..Len(b.sectionPercentages) :
              RoundedToCents(b.sectionPercentages[i],
                             sectionCounts[r][b.sectionPercentages[i].key],
                             b.distanceYards)

(***************************************************************************)
(* Properties of the outbound calls.                                       *)
(***************************************************************************)
\* The revisions whose analysis call goes through fetchWithRetry.
RetryRevisions == {"current", "retry"}

\* fetchWithRetry has been called and has returned or thrown.
RetryEnded(r) ==
  /\ variant[r] \in RetryRevisions
  /\ outcomes[r] # <<>>
  /\ pc[r] \notin {"fetch", "backoff"}

LastOutcome(r) == outcomes[r][Len(outcomes[r])]

\* C11: when fetchWithRetry has ended, what it delivered is the outcome of
\* the last fetch it performed: the handler holds that response, whatever its
\* status, if the fetch returned one, and is handling the network failure,
\* with no response in hand, if the fetch threw.
C11_LastOutcomeDelivered ==
  \A r \in Reqs :
    RetryEnded(r) =>
      IF LastOutcome(r).thrown
      THEN err[r] = NetworkError /\ resp[r] = NoResp
      ELSE resp[r] = LastOutcome(r).response /\ err[r].kind # "network"

\* A call that ended with the failure of the fetch after the loop, which
\* followed a 503, a swallowed failure and another 503.
C11_Witness ==
  \E r \in Reqs :
    /\ RetryEnded(r)
    /\ pc[r] = "done"
    /\ Len(outcomes[r]) = Retries + 1
    /\ ~outcomes[r][1].thrown /\ outcomes[r][2].thrown
    /\ ~outcomes[r][3].thrown /\ outcomes[r][4].thrown

\* Every fetch of the request failed transiently: it threw a network failure
\* or returned a 503.
AllTransient(r) ==
  /\ outcomes[r] # <<>>
  /\ \A i \in 1..Len(outcomes[r]) :
       outcomes[r][i].thrown \/ outcomes[r][i].response.status = 503

OverloadMessage == "Gemini servers are currently overloaded. Try again shortly."

NetworkMessage == "Network error - please check your connection."

GenericMessage == "An unexpected error occurred. Please try again."

\* C12: when every attempt of the analysis call failed transiently (503
\* responses, network failures, or a mix), fetchWithRetry ends with a failure
\* the handler answers with 500 and nothing else, and the message names the
\* cause of the last attempt, overload or network, not the generic text.
C12_TransientFailureIs500 ==
  \A r \in Reqs :
    (RetryEnded(r) /\ AllTransient(r)) =>
      /\ pc[r] \in {"response", "catch", "done"}
      /\ pc[r] = "done" =>
           /\ AnsweredOnce(r, 500)
           /\ responses[r][1].body.error =
                IF LastOutcome(r).thrown THEN NetworkMessage ELSE OverloadMessage
           /\ responses[r][1].body.error # GenericMessage
      /\ pc[r] # "done" => responses[r] = <<>>

\* Four failed fetches, a network failure among them and a 503 last,
\* answered with the overload message.
C12_Witness ==
  \E r \in Reqs :
    /\ variant[r] = "current"
    /\ AllTransient(r)
    /\ Len(outcomes[r]) = Retries + 1
    /\ \E i \in 1..Retries : outcomes[r][i].thrown
    /\ ~LastOutcome(r).thrown
    /\ AnsweredOnce(r, 500)
    /\ responses[r][1].body.error = OverloadMessage

\* The revisions that parse the text of a Gemini candidate and fall back to
\* { rawOutput: raw }.
FallbackRevisions ==
  {"current", "retry", "single", "twocall", "twocall2", "gemini15"}

\* The outcome of the analysis call that the handler worked on: the first
\* fetch of a two-call revision, the last fetch of the others.
AnalysisOutcome(r) ==
  IF Cfg(variant[r]).summaryCall THEN outcomes[r][1] ELSE LastOutcome(r)

AnalysisResponse(r) == AnalysisOutcome(r).response

\* The summary call of a two-call revision, if there is one, returned a body
\* that is JSON.
SummaryArrived(r) ==
  Cfg(variant[r]).summaryCall =>
    /\ Len(outcomes[r]) = 2
    /\ ~outcomes[r][2].thrown
    /\ outcomes[r][2].response.body # "badjson"

\* The handler has finished after the provider returned, with an OK status
\* where the revision checks it, a candidate whose text is no JSON.
GotUnparseableText(r) ==
  /\ variant[r] \in FallbackRevisions
  /\ pc[r] = "done"
  /\ outcomes[r] # <<>>
  /\ ~AnalysisOutcome(r).thrown
  /\ AnalysisResponse(r).body = "candidate"
  /\ AnalysisResponse(r).status = 200
  /\ ~ParsesAsJSON(Cleaned(variant[r], AnalysisResponse(r).text))
  /\ SummaryArrived(r)

\* C18: when the text the provider returned is no JSON the handler answers
\* 200 and the body has a rawOutput field that carries the text: the text as
\* returned, or, in the current revision, the text without its markdown
\* fence and surrounding white space, which is a piece of the text returned.
C18_UnparseableTextIsRawOutput ==
  \A r \in Reqs :
    GotUnparseableText(r) =>
      LET b == responses[r][1].body
          t == AnalysisResponse(r).text
      IN /\ AnsweredOnce(r, 200)
         /\ b.rawOutput.type = "string"
         /\ b.rawOutput.s # <<>>
         /\ Contains(t, b.rawOutput.s)
         /\ variant[r] # "current" => b.rawOutput.s = t
         /\ variant[r] = "current" => b.rawOutput.s = StripFence(t)

\* The current revision answering 200 with the inside of a fenced text that
\* is no JSON.
C18_Witness ==
  \E r \in Reqs :
    /\ variant[r] = "current"
    /\ GotUnparseableText(r)
    /\ outcomes[r][1].thrown
    /\ AnalysisResponse(r).text = TextFencedPlain
    /\ AnsweredOnce(r, 200)
    /\ responses[r][1].body.rawOutput = Str(TextPlain)

(***************************************************************************)
(* Properties of concurrent requests.                                      *)
(***************************************************************************)
\* Everything a handler invocation holds for one request: the request, the
\* locals, the position, what was sent.
LocalsOf(q) ==
  <<variant[q], method[q], authorization[q], body[q], pc[q], text[q],
    lines[q], idx[q], totalYards[q], sets[q], strokeCounts[q],
    sectionCounts[q], currentSection[q], strokePercentages[q],
    sectionPercentages[q], aiSummary[q], call[q], attempt[q], fetches[q],
    waits[q], outcomes[q], resp[q], parsedRaw[q], err[q], bodyRead[q],
    responses[q], threw[q]>>

\* The parser's accumulators after the first n lines, for a request handled
\* on its own from its first line to its last.
RECURSIVE ParsedUpTo(_, _)
ParsedUpTo(ls, n) ==
  IF n = 0
  THEN [totalYards |-> 0, sets |-> <<>>,
        strokeCounts |-> [k \in Range(StrokeOrder) |-> 0],
        sectionCounts |-> [k \in Range(SectionOrder) |-> 0],
        currentSection |-> "mainset"]
  ELSE LET p == ParsedUpTo(ls, n - 1)
           lower == toLowerCase(ls[n])
           section == detectSection(lower, p.currentSection)
           m == match(ls[n])
           stroke == detectStroke(lower)
       IN IF m.found
          THEN [totalYards |-> p.totalYards + Yards(m),
                sets |-> Append(p.sets, SetEntry(m, stroke, section)),
                strokeCounts |-> AddYards(p.strokeCounts, stroke, Yards(m)),
                sectionCounts |-> AddYards(p.sectionCounts, section, Yards(m)),
                currentSection |-> section]
          ELSE [p EXCEPT !.currentSection = section]

\* The body the local parser answers to a text when it handles it alone,
\* without the id and the date.
WorkoutAlone(txt) ==
  LET ls == SplitLines(txt)
      p == ParsedUpTo(ls, Len(ls))
      strokePct == Percentages(p.strokeCounts, StrokeOrder, p.totalYards)
      sectionPct == Percentages(p.sectionCounts, SectionOrder, p.totalYards)
  IN WorkoutBody("", 0, p.totalYards, p.sets,
                 Summary(Len(p.sets), p.totalYards, strokePct),
                 strokePct, sectionPct)

Answer(status, b) == <<[status |-> status, body |-> b]>>

\* An answer with an error text and details.
Failure(msg, kind, status, b) ==
  [ErrorBody(msg) EXCEPT
     !.details = [kind |-> kind, status |-> status, body |-> b]]

\* What the first two-call revision answers, alone, to the outcomes outs of
\* its calls.
TwoCallAlone(outs) ==
  IF outs[1].thrown \/ outs[1].response.body = "badjson"
  THEN Answer(500, ErrorBody("Server error"))
  ELSE IF outs[1].response.body = "nocandidates"
  THEN Answer(500, Failure("Gemini returned no output", "data", 0,
                           "nocandidates"))
  ELSE IF outs[2].thrown \/ outs[2].response.body = "badjson"
  THEN Answer(500, ErrorBody("Server error"))
  ELSE Answer(200,
              AnalysisBody(IF outs[1].response.text = TextObject
                           THEN Undefined ELSE Str(outs[1].response.text),
                           IF outs[2].response.body = "candidate"
                           THEN "provider" ELSE "No summary available."))

\* What the current revision answers, alone, to the outcome last of the
\* last fetch of fetchWithRetry.
CurrentAlone(last) ==
  IF last.thrown THEN Answer(500, Failure(NetworkMessage, "network", 0, "none"))
  ELSE IF last.response.status = 503
  THEN Answer(500, Failure(OverloadMessage, "http", 503, last.response.body))
  ELSE IF last.response.status # 200
  THEN Answer(500, Failure(GenericMessage, "http", last.response.status,
                           last.response.body))
  ELSE IF last.response.body = "badjson"
  THEN Answer(500, Failure(GenericMessage, "json", 200, "none"))
  ELSE IF last.response.body = "nocandidates"
  THEN Answer(503, Failure("Gemini is temporarily unavailable. Please try again shortly.",
                           "data", 0, "nocandidates"))
  ELSE Answer(200,
              [AnalysisBody(IF last.response.text \in {TextObject, TextFenced}
                            THEN Undefined ELSE Str(TextPlain), "")
                 EXCEPT !.merged =
                   [NoMembers EXCEPT !.aiSummary = Str(NoSummaryAvailable),
                                     !.recoveryPlan = DefaultPlan]])

\* What a finished request has sent is what its handler sends when it runs
\* alone on the same request, given the outcomes of its own outbound calls
\* (and whatever id and date the local parser stamps).
OwnAnswer(r) ==
  LET sent == [i \in 1..Len(responses[r]) |->
                 [responses[r][i] EXCEPT !.body = CoreBody(@)]]
  IN IF body[r].text.type # "string"
     THEN IF variant[r] = "local"
          THEN threw[r] /\ sent = <<>>
          ELSE /\ ~threw[r]
               /\ sent = Answer(500, IF variant[r] = "current"
                                      THEN Failure(GenericMessage, "type", 0, "none")
                                      ELSE ErrorBody("Server error"))
     ELSE /\ ~threw[r]
          /\ sent = CASE variant[r] = "local" ->
                            Answer(200, WorkoutAlone(body[r].text.s))
                       [] variant[r] = "twocall" -> TwoCallAlone(outcomes[r])
                       [] OTHER -> CurrentAlone(LastOutcome(r))

\* C19: a step of one request leaves everything the other request holds,
\* and the environment, as they are; and a request that has finished, its
\* steps and its awaits having been interleaved with another request's in
\* any order, holds the answer it gives when handled alone.
C19_RequestsIndependent ==
  /\ [][/\ env' = env
        /\ \E r \in Reqs : \A q \in Reqs \ {r} : LocalsOf(q)' = LocalsOf(q)]_vars
  /\ [](\A r \in Reqs : Finished(r) => OwnAnswer(r))

\* A request to the local parser answered while a request to the two-call
\* revision, which started first, awaits its summary call.
C19_Witness ==
  /\ variant[1] = "twocall" /\ variant[2] = "local"
  /\ pc[1] = "fetch" /\ call[1] = 2
  /\ Answered200(2)
  /\ responses[2][1].body.distanceYards > 0

(***************************************************************************)
(* Properties of fetchWithRetry.                                           *)
(***************************************************************************)
\* Every fetch so far threw.
AllThrown(r) == \A i \in 1..Len(outcomes[r]) : outcomes[r][i].thrown

\* Every fetch so far returned a 503.
All503(r) ==
  \A i \in 1..Len(outcomes[r]) :
    ~outcomes[r][i].thrown /\ outcomes[r][i].response.status = 503

\* C21: fetchWithRetry ends whatever the fetches do, and it never performs
\* more than retries + 1 fetches: retries + 1 when every response was a 503,
\* retries when every fetch threw.
C21_BoundedFetches ==
  /\ [](\A r \in Reqs :
          variant[r] \in RetryRevisions =>
            /\ fetches[r] = Len(outcomes[r])
            /\ fetches[r] <= Retries + 1
            /\ (RetryEnded(r) /\ All503(r)) => fetches[r] = Retries + 1
            /\ (RetryEnded(r) /\ AllThrown(r)) => fetches[r] = Retries)
  /\ \A r \in Reqs : (pc[r] = "fetch") ~> RetryEnded(r)

\* A call that ended after four 503 responses.
C21_Witness ==
  \E r \in Reqs :
    /\ RetryEnded(r)
    /\ All503(r)
    /\ fetches[r] = Retries + 1
    /\ Len(waits[r]) = Retries

Transient(outcome) == outcome.thrown \/ outcome.response.status = 503

\* The 503 responses among the first n outcomes.
Overloads(r, n) ==
  {i \in 1..n : ~outcomes[r][i].thrown /\ outcomes[r][i].response.status = 503}

\* C23: every fetch of fetchWithRetry but its last threw or returned a 503;
\* a response of any other status ends the call at once, with no fetch and
\* no wait after it, in the hands of the handler; and when such a response
\* is not OK the handler answers 500 and nothing else, the details of the
\* answer carrying the status and the body of that response.
C23_OtherStatusReturnedAtOnce ==
  \A r \in Reqs :
    (variant[r] \in RetryRevisions /\ outcomes[r] # <<>>) =>
      LET n == Len(outcomes[r])
          o == LastOutcome(r).response
      IN /\ \A i \in 1..(n - 1) : Transient(outcomes[r][i])
         /\ ~Transient(LastOutcome(r)) =>
              /\ pc[r] \in {"response", "catch", "done"}
              /\ resp[r] = o
              /\ Len(waits[r]) = Cardinality(Overloads(r, n))
              /\ (o.status # 200 /\ pc[r] = "done") =>
                   /\ AnsweredOnce(r, 500)
                   /\ responses[r][1].body.details.status = o.status
                   /\ responses[r][1].body.details.body = o.body

\* A 500 of the provider that came after a 503 and one wait, answered 500
\* with the provider's status in the details.
C23_Witness ==
  \E r \in Reqs :
    /\ variant[r] = "current"
    /\ Len(outcomes[r]) = 2
    /\ ~outcomes[r][1].thrown /\ outcomes[r][1].response.status = 503
    /\ ~outcomes[r][2].thrown /\ outcomes[r][2].response.status = 500
    /\ waits[r] = <<BaseDelay>>
    /\ AnsweredOnce(r, 500)
    /\ responses[r][1].body.details.status = 500

(***************************************************************************)
(* Properties of the sections and strokes of the local parser.             *)
(***************************************************************************)
\* The line that was processed last.
LastLine(r) == toLowerCase(lines[r][idx[r] - 1])

\* The request has processed at least one line.
InLoop(r) == pc[r] \in {"loop", "send"} /\ idx[r] > 1

\* C24, as claimed: a line that contains "pull" and none of "warm", "pre"
\* and "main" makes Pull the current section, and a line that contains
\* "sprint" and none of these four makes Sprint Finisher the current
\* section: a section that is none of warmup, preset, main set and
\* cooldown, to which a set on that line is attributed.
C24_PullAndSprintSections ==
  \A r \in Reqs :
    InLoop(r) =>
      LET pull == Contains(LastLine(r), <<"p", "u", "l", "l">>)
          sprint == Contains(LastLine(r), <<"s", "p", "r", "i", "n", "t">>)
          earlier == \/ Contains(LastLine(r), KwWarm)
                     \/ Contains(LastLine(r), KwPre)
                     \/ Contains(LastLine(r), KwMain)
      IN ((pull \/ sprint) /\ ~earlier) =>
           /\ currentSection[r] \notin Range(SectionOrder)
           /\ match(lines[r][idx[r] - 1]).found =>
                sets[r][Len(sets[r])].section = currentSection[r]

\* The section selected by the last of the first n lines that contains one
\* of the keywords the classifier tests; the main set when none does.
RECURSIVE LastSelected(_, _)
LastSelected(ls, n) ==
  IF n = 0 THEN "mainset"
  ELSE IF KeywordHits(ls[n]) # {} THEN SectionAfter(ls[n], "mainset")
  ELSE LastSelected(ls, n - 1)

\* C25: a processed line that contains none of the keywords leaves the
\* current section as it was, so that after any number of lines the current
\* section is the one selected by the last line that contained a keyword,
\* the main set if there was none.
C25_SectionKeptWithoutKeyword ==
  \A r \in Reqs :
    (pc[r] \in {"loop", "send"} \/ Answered200(r)) =>
      /\ currentSection[r] = LastSelected(lines[r], idx[r] - 1)
      /\ (idx[r] > 2 /\ KeywordHits(lines[r][idx[r] - 1]) = {}) =>
           currentSection[r] = LastSelected(lines[r], idx[r] - 2)

\* A line without keyword, processed after a cooldown line, whose set went
\* to the cooldown.
C25_Witness ==
  \E r \in Reqs :
    /\ pc[r] = "loop"
    /\ idx[r] = 3
    /\ lines[r] = <<KwSegCool, KwSegNone>>
    /\ currentSection[r] = "cooldown"
    /\ sets[r][2].section = "cooldown"

\* The yardage of each line: reps x distance of its match, 0 without one.
PatternYards(ls) ==
  [i \in 1..Len(ls) |->
     IF match(ls[i]).found THEN Yards(match(ls[i])) ELSE 0]

\* The section that is current after each line.
SectionsOf(ls) == [i \in 1..Len(ls) |-> LastSelected(ls, i)]

\* The sum of the first n yardages whose tag is the given one.
SumWhere(yards, tags, n, tag) ==
  SumSeq([i \in 1..n |-> IF tags[i] = tag THEN yards[i] ELSE 0])

\* The section was current, then another one was, then it was again.
Revisited(ls, section) ==
  \E i, j, k \in 1..Len(ls) :
    /\ i < j /\ j < k
    /\ LastSelected(ls, i) = section
    /\ LastSelected(ls, j) # section
    /\ LastSelected(ls, k) = section

\* C26: the accumulator of a section holds the yardage of every line
\* processed while the section was the current one (each line counting for
\* the section that is current once its own header test is done), whether in one run of
\* lines or in several that other sections separate; the percentage the
\* answer gives for the section is that sum over the total.
C26_SectionKeyedByName ==
  \A r \in Reqs :
    (pc[r] \in {"loop", "send"} \/ Answered200(r)) =>
      LET yards == PatternYards(lines[r])
          tags == SectionsOf(lines[r])
          pct == responses[r][1].body.sectionPercentages
      IN /\ \A k \in Range(SectionOrder) :
              sectionCounts[r][k] = SumWhere(yards, tags, idx[r] - 1, k)
         /\ Answered200(r) =>
              \A i \in 1..Len(pct) :
                /\ pct[i].val.num = SumWhere(yards, tags, Len(lines[r]), pct[i].key)
                /\ pct[i].val.den = responses[r][1].body.distanceYards

\* The sheet that returns to its warmup, answered with the 250 yards of both
\* visits in the warmup.
C26_Witness ==
  \E r \in Reqs :
    /\ Answered200(r)
    /\ body[r].text = Str(ScenarioReturn)
    /\ Revisited(lines[r], "warmup")
    /\ sectionCounts[r]["warmup"] = 250
    /\ sectionCounts[r]["mainset"] = 400
    /\ responses[r][1].body.sectionPercentages[1].val = Divide(250, 650)

\* The stroke keywords in the order of their tests.
StrokeKeywords ==
  <<[kw |-> <<"b", "a", "c", "k">>, stroke |-> "backstroke"],
    [kw |-> <<"b", "r", "e", "a", "s", "t">>, stroke |-> "breaststroke"],
    [kw |-> <<"f", "l", "y">>, stroke |-> "butterfly"],
    [kw |-> <<"k", "i", "c", "k">>, stroke |-> "kick"],
    [kw |-> <<"d", "r", "i", "l", "l">>, stroke |-> "drill"]>>

\* The stroke keywords the lower-cased line contains.
StrokeHits(line) ==
  {i \in 1..Len(StrokeKeywords) :
     Contains(toLowerCase(line), StrokeKeywords[i].kw)}

\* The stroke of the first keyword the line contains; freestyle without one.
FirstStroke(line) ==
  IF StrokeHits(line) = {} THEN "freestyle"
  ELSE StrokeKeywords[CHOOSE i \in StrokeHits(line) :
                        \A j \in StrokeHits(line) : i <= j].stroke

\* The stroke of each line.
StrokesOf(ls) == [i \in 1..Len(ls) |-> FirstStroke(ls[i])]

\* C27: a line with a rep x distance pattern is recorded with one stroke,
\* that of the first keyword it contains in the order back, breast, fly,
\* kick, drill, freestyle when it contains none, and the whole yardage of
\* the line is added to the accumulator of that stroke and of no other.
C27_OneStrokePerLine ==
  \A r \in Reqs :
    (pc[r] \in {"loop", "send"} \/ Answered200(r)) =>
      LET yards == PatternYards(lines[r])
          tags == StrokesOf(lines[r])
          set == sets[r][Len(sets[r])]
      IN /\ \A k \in Range(StrokeOrder) :
              strokeCounts[r][k] = SumWhere(yards, tags, idx[r] - 1, k)
         /\ (idx[r] > 1 /\ match(lines[r][idx[r] - 1]).found) =>
              /\ set.stroke = tags[idx[r] - 1]
              /\ set.yards = yards[idx[r] - 1]

\* The sheet whose lines name several strokes, answered with 100 yards each
\* of backstroke, breaststroke and freestyle and none of kick, butterfly
\* and drill.
C27_Witness ==
  \E r \in Reqs :
    /\ Answered200(r)
    /\ body[r].text = Str(ScenarioMedley)
    /\ Cardinality(StrokeHits(lines[r][2])) = 3
    /\ strokeCounts[r]["backstroke"] = 100
    /\ strokeCounts[r]["breaststroke"] = 100
    /\ strokeCounts[r]["freestyle"] = 100
    /\ strokeCounts[r]["kick"] = 0
    /\ Len(responses[r][1].body.strokePercentages) = 3

\* C28: a processed line that contains a section keyword and a rep x
\* distance pattern has its set recorded under the section that this line
\* selects, and its yardage added to that section, the section that was
\* current before the line getting nothing from it.
C28_SectionBeforeYardage ==
  [][\A r \in Reqs :
       (/\ ProcessesLine(r)
        /\ KeywordHits(lines[r][idx[r]]) # {}
        /\ match(lines[r][idx[r]]).found) =>
         LET line == lines[r][idx[r]]
             selected == SectionAfter(line, currentSection[r])
             yards == FirstPatternYards(line)
         IN /\ Len(sets'[r]) = Len(sets[r]) + 1
            /\ sets'[r][Len(sets'[r])].section = selected
            /\ sectionCounts'[r][selected] = sectionCounts[r][selected] + yards
            /\ \A k \in Range(SectionOrder) \ {selected} :
                 sectionCounts'[r][k] = sectionCounts[r][k]]_vars

\* A line "pre COOL 3x5 back", processed while the cooldown was current,
\* whose 15 yards went to the preset.
C28_Witness ==
  \E r \in Reqs :
    /\ pc[r] = "loop"
    /\ idx[r] = 3
    /\ lines[r] = <<KwSegCool, KwSegPreCool>>
    /\ sets[r][2].section = "preset"
    /\ sectionCounts[r]["preset"] = 15
    /\ sectionCounts[r]["cooldown"] = 20

\* What the loop accumulates for a request.
Accumulated(r) == <<totalYards[r], strokeCounts[r], sectionCounts[r], sets[r]>>

\* C29: processing a line without a rep x distance pattern leaves the total
\* yardage, the accumulator of every section and of every stroke and the
\* list of detected sets as they were, the current section alone being free
\* to change; and no step makes the total or an accumulator smaller.
C29_PatternlessLineAddsNothing ==
  [][\A r \in Reqs :
       /\ (ProcessesLine(r) /\ ~match(lines[r][idx[r]]).found) =>
            Accumulated(r)' = Accumulated(r)
       /\ totalYards'[r] >= totalYards[r]
       /\ \A k \in Range(StrokeOrder) : strokeCounts'[r][k] >= strokeCounts[r][k]
       /\ \A k \in Range(SectionOrder) :
            sectionCounts'[r][k] >= sectionCounts[r][k]]_vars

\* The header "Main Set" of the sheet of three titled sections, processed
\* after the 400 yards of the warmup: the section changed and nothing else.
C29_Witness ==
  \E r \in Reqs :
    /\ pc[r] = "loop"
    /\ body[r].text = Str(ScenarioSix)
    /\ idx[r] = 4
    /\ ~match(lines[r][3]).found
    /\ currentSection[r] = "mainset"
    /\ totalYards[r] = 400
    /\ sectionCounts[r]["warmup"] = 400
    /\ Len(sets[r]) = 1

\* Object.keys of a percentage map.
Keys(pct) == {pct[i].key : i \in 1..Len(pct)}

\* C30: once the percentage maps are built, and in the answer, a stroke is
\* a key of strokePercentages exactly when its accumulator is greater than
\* 0, and a section is a key of sectionPercentages exactly when its
\* accumulator is; no key occurs twice.
C30_KeyIffPositive ==
  \A r \in Reqs :
    /\ pc[r] = "send" =>
         /\ Keys(strokePercentages[r]) =
              {k \in Range(StrokeOrder) : strokeCounts[r][k] > 0}
         /\ Keys(sectionPercentages[r]) =
              {k \in Range(SectionOrder) : sectionCounts[r][k] > 0}
    /\ Answered200(r) =>
         LET b == responses[r][1].body
         IN /\ Keys(b.strokePercentages) =
                 {k \in Range(StrokeOrder) : strokeCounts[r][k] > 0}
            /\ Keys(b.sectionPercentages) =
                 {k \in Range(SectionOrder) : sectionCounts[r][k] > 0}
            /\ Cardinality(Keys(b.strokePercentages)) = Len(b.strokePercentages)
            /\ Cardinality(Keys(b.sectionPercentages)) = Len(b.sectionPercentages)

\* The answer to the sheet of three titled sections: freestyle alone among
\* the strokes, and every section but the preset.
C30_Witness ==
  \E r \in Reqs :
    /\ Answered200(r)
    /\ body[r].text = Str(ScenarioSix)
    /\ Keys(responses[r][1].body.strokePercentages) = {"freestyle"}
    /\ Keys(responses[r][1].body.sectionPercentages) =
         {"warmup", "mainset", "cooldown"}
    /\ sectionCounts[r]["preset"] = 0

(***************************************************************************)
(* Properties of the order of the checks and of the credential.            *)
(***************************************************************************)
\* The request carries no good credential: for the local parser, no header
\* or a token that is not the secret; for the other revisions, no provider
\* key in the configuration.
BadCredential(r) ==
  IF Cfg(variant[r]).bearer
  THEN Unauthenticated(authorization[r], env.GITHUB_API_KEY)
  ELSE env.PROVIDER_API_KEY.type = "undefined"

\* The request has no body, or a body whose text is missing or empty.
EmptyText(b) == ~b.present \/ b.text = Undefined \/ b.text = Str(<<>>)

\* C31, as claimed: the method is checked before the credential and the
\* credential before the text: a request that is no POST and has a bad or
\* missing credential is answered 405, or the diagnostics for a GET, and a
\* POST with a bad or missing credential and an empty text is answered 401,
\* its body unread.
C31_MethodCredentialText ==
  \A r \in Reqs :
    (Finished(r) /\ BadCredential(r)) =>
      /\ method[r] # "POST" =>
           \/ AnsweredOnce(r, 405)
           \/ method[r] = "GET" /\ AnsweredOnce(r, 200) /\ responses[r][1].body.ok
      /\ (method[r] = "POST" /\ EmptyText(body[r])) =>
           AnsweredOnce(r, 401) /\ ~bodyRead[r]

\* The places of the header where "Bearer " occurs.
BearerAt(h) ==
  {i \in 1..(Len(h) - Len(BearerPrefix) + 1) :
     SubSeq(h, i, i + Len(BearerPrefix) - 1) = BearerPrefix}

\* The header without its first occurrence of "Bearer ".
WithoutFirstBearer(h) ==
  IF BearerAt(h) = {} THEN h
  ELSE LET i == CHOOSE a \in BearerAt(h) : \A b \in BearerAt(h) : a <= b
       IN SubSeq(h, 1, i - 1) \o SubSeq(h, i + Len(BearerPrefix), Len(h))

\* The text of the Authorization header, empty when there is none.
HeaderText(h) == IF h.type = "string" THEN h.s ELSE <<>>

\* The secret is set, and the header without its first "Bearer ", trimmed,
\* is the trimmed secret.
TokenIsSecret(h, secret) ==
  /\ secret.type = "string" /\ secret.s # <<>>
  /\ trim(WithoutFirstBearer(HeaderText(h))) = trim(secret.s)

\* The request went through the credential check and was let through.
PassedAuth(r) == pc[r] \notin {"method", "auth"} /\ ~AnsweredOnce(r, 401)

\* C32: a POST to the local parser passes the credential check exactly when
\* the secret is set and the Authorization header, its first "Bearer "
\* removed and then trimmed, equals the trimmed secret; a POST that does not
\* pass is answered 401; a header that is the bare secret passes.
C32_BearerCheck ==
  \A r \in Reqs :
    (variant[r] = "local" /\ method[r] = "POST" /\ pc[r] \notin {"method", "auth", "idle"}) =>
      /\ PassedAuth(r) <=> TokenIsSecret(authorization[r], env.GITHUB_API_KEY)
      /\ ~PassedAuth(r) => ~bodyRead[r]
      /\ (authorization[r] = env.GITHUB_API_KEY /\ env.GITHUB_API_KEY = Str(SecretS))
           => PassedAuth(r)

\* A POST whose Authorization header is the bare secret, answered 200.
C32_Witness ==
  \E r \in Reqs :
    /\ variant[r] = "local"
    /\ method[r] = "POST"
    /\ env.GITHUB_API_KEY = Str(SecretS)
    /\ authorization[r] = Str(SecretS)
    /\ bodyRead[r]
    /\ AnsweredOnce(r, 200)

(***************************************************************************)
(* Properties of the list of sets.                                         *)
(***************************************************************************)
\* The positions, in input order, of those among the first n lines that
\* contain a rep x distance pattern.
PatternLines(ls, n) ==
  SelectSeq([i \in 1..n |-> i], LAMBDA i : match(ls[i]).found)

\* The list is the one of the pattern lines among the first n lines: one
\* entry per such line, in input order, with the repetitions and the
\* distance of the line, their product as yards, and the section that was
\* current when the line was processed.
SetsOfLines(list, ls, n) ==
  LET at == PatternLines(ls, n)
  IN /\ Len(list) = Len(at)
     /\ \A j \in 1..Len(list) :
          /\ list[j].reps = match(ls[at[j]]).reps
          /\ list[j].distancePerRep = match(ls[at[j]]).dist
          /\ list[j].yards = list[j].reps * list[j].distancePerRep
          /\ list[j].section = LastSelected(ls, at[j])

\* C33: the sets of the local parser hold one entry per line with a rep x
\* distance pattern, in input order, each with yards = reps x
\* distancePerRep and the section current when its line was processed; the
\* yards of the entries of the answer add up to its distanceYards.
C33_SetsListPatternLines ==
  \A r \in Reqs :
    /\ pc[r] \in {"loop", "send"} => SetsOfLines(sets[r], lines[r], idx[r] - 1)
    /\ Answered200(r) =>
         LET b == responses[r][1].body
         IN /\ SetsOfLines(b.sets, lines[r], Len(lines[r]))
            /\ SumSeq([j \in 1..Len(b.sets) |-> b.sets[j].yards]) = b.distanceYards

\* The sheet of three titled sections: six lines, answered with three sets,
\* one per section, whose yards add up to 1500.
C33_Witness ==
  \E r \in Reqs :
    /\ Answered200(r)
    /\ body[r].text = Str(ScenarioSix)
    /\ Len(lines[r]) = 6
    /\ PatternLines(lines[r], 6) = <<2, 4, 6>>
    /\ Len(responses[r][1].body.sets) = 3
    /\ responses[r][1].body.sets[1].section = "warmup"
    /\ responses[r][1].body.sets[2].yards = 1000
    /\ responses[r][1].body.sets[3].section = "cooldown"
    /\ responses[r][1].body.distanceYards = 1500

(***************************************************************************)
(* Properties of the revisions with a summary call.                        *)
(***************************************************************************)
\* The revisions that ask the provider for a summary after the analysis.
TwoCallRevisions == {"twocall", "twocall2"}

\* The summary call has been issued: it is in flight or it has settled.
SummaryIssued(r) == call[r] = 2

\* C34: in the revisions with a summary call, the summary request is issued
\* only once the analysis request has returned a body with a candidate; no
\* more than two outbound requests are made for one incoming request; and a
\* summary response that is JSON without candidates, whatever its status,
\* ends in a 200 whose aiSummary is "No summary available.".
C34_SummaryAfterAnalysis ==
  \A r \in Reqs :
    variant[r] \in TwoCallRevisions =>
      /\ fetches[r] <= 2
      /\ Len(outcomes[r]) = fetches[r]
      /\ fetches[r] = 2 => SummaryIssued(r)
      /\ SummaryIssued(r) =>
           /\ fetches[r] >= 1
           /\ ~outcomes[r][1].thrown
           /\ outcomes[r][1].response.body = "candidate"
      /\ (/\ Finished(r)
          /\ fetches[r] = 2
          /\ ~outcomes[r][2].thrown
          /\ outcomes[r][2].response.body = "nocandidates") =>
           /\ AnsweredOnce(r, 200)
           /\ responses[r][1].body.summaryText = "No summary available."

\* The second two-call revision whose summary call returned a 503 without
\* candidates, answered 200 with the default summary.
C34_Witness ==
  \E r \in Reqs :
    /\ variant[r] = "twocall2"
    /\ fetches[r] = 2
    /\ ~outcomes[r][2].thrown
    /\ outcomes[r][2].response.status = 503
    /\ outcomes[r][2].response.body = "nocandidates"
    /\ AnsweredOnce(r, 200)
    /\ responses[r][1].body.summaryText = "No summary available."

(***************************************************************************)
(* Properties of the answer to a body without candidates.                  *)
(***************************************************************************)
\* The outcome of a call that returned an OK status and JSON without
\* candidates.
EmptyCandidates(outcome) ==
  /\ ~outcome.thrown
  /\ outcome.response.status = 200
  /\ outcome.response.body = "nocandidates"

\* C35: in the current handler an OK response without candidates is the
\* last outbound call of the request: fetchWithRetry returns it without a
\* wait, and the handler answers it with one 503 whose details are the
\* provider's body.
C35_EmptyCandidatesNotRetried ==
  \A r \in Reqs :
    variant[r] = "current" =>
      \A i \in 1..Len(outcomes[r]) :
        EmptyCandidates(outcomes[r][i]) =>
          /\ i = Len(outcomes[r])
          /\ fetches[r] = i
          /\ Len(waits[r]) < i
          /\ pc[r] \in {"response", "done"}
          /\ pc[r] = "response" => resp[r] = outcomes[r][i].response
          /\ pc[r] = "done" =>
               /\ AnsweredOnce(r, 503)
               /\ responses[r][1].body.error =
                    "Gemini is temporarily unavailable. Please try again shortly."
               /\ responses[r][1].body.details =
                    [kind |-> "data", status |-> 0,
                     body |-> outcomes[r][i].response.body]

\* The current handler answered 503 to an OK response without candidates
\* that came after two attempts that failed.
C35_Witness ==
  \E r \in Reqs :
    /\ variant[r] = "current"
    /\ Len(outcomes[r]) = 3
    /\ outcomes[r][1].thrown
    /\ ~outcomes[r][2].thrown
    /\ outcomes[r][2].response.status = 503
    /\ EmptyCandidates(outcomes[r][3])
    /\ AnsweredOnce(r, 503)
    /\ responses[r][1].body.details.kind = "data"

(***************************************************************************)
(* Properties of the normalisation of the provider's document.            *)
(***************************************************************************)
\* The document the provider gave to a request of the current revision:
\* what its last call returned, parsed.
Provided(r) == Merged(Parsed(variant[r], outcomes[r][Len(outcomes[r])].response))

\* What a request answered with a 200 sent of the document.
SentMembers(r) == responses[r][1].body.merged

\* A POST of the current revision answered with a 200.
CurrentOK(r) == variant[r] = "current" /\ method[r] = "POST" /\ AnsweredOnce(r, 200)

WellFormedItem(item) ==
  /\ item.sets.type = "number"
  /\ item.sets.n > 0
  /\ item.coachingCues.type = "array"

WellFormedBlock(block) ==
  /\ block.id.type = "string"
  /\ block.items.type = "array"
  /\ \A k \in 1..Len(block.items.elems) : WellFormedItem(block.items.elems[k])

WellFormedPlan(plan) ==
  /\ plan.sessionSummary.type = "object"
  /\ plan.setStrategy.type = "array"
  /\ plan.blocks.type = "array"
  /\ plan.otherStrategies.type = "array"
  /\ \A j \in 1..Len(plan.blocks.elems) : WellFormedBlock(plan.blocks.elems[j])

\* The provider gave no sets for an item, or sets that are not positive.
NoneOrNonPositive(given) ==
  given.type = "undefined" \/ (given.type = "number" /\ given.n <= 0)

\* The blocks of the provider's plan that have a string id and an array of
\* items, in their order.
GivenBlocks(plan) ==
  IF plan.type = "object" /\ plan.blocks.type = "array"
  THEN SelectSeq(plan.blocks.elems,
                 LAMBDA b : b.type = "object" /\ b.id.type = "string"
                            /\ b.items.type = "array")
  ELSE <<>>

\* The items for which the provider gave no positive sets are returned
\* with sets 2.
DefaultSets(given, returned) ==
  /\ Len(returned) = Len(given)
  /\ \A j \in 1..Len(given) :
       /\ Len(returned[j].items.elems) = Len(given[j].items.elems)
       /\ \A k \in 1..Len(given[j].items.elems) :
            NoneOrNonPositive(given[j].items.elems[k].sets) =>
              returned[j].items.elems[k].sets = Num(2)

\* C36: every 200 of the current handler to a POST has a recoveryPlan whose
\* sessionSummary is an object and whose setStrategy, blocks and
\* otherStrategies are arrays; every block returned has a string id and an
\* array of items, and every item returned has sets a number above 0 (2
\* when the provider gave none or a non-positive one) and coachingCues an
\* array, whatever the document of the provider.
C36_PlanWellFormed ==
  \A r \in Reqs :
    CurrentOK(r) =>
      /\ WellFormedPlan(SentMembers(r).recoveryPlan)
      /\ DefaultSets(GivenBlocks(Provided(r).recoveryPlan),
                     SentMembers(r).recoveryPlan.blocks.elems)

\* A value that is there and whose text is not blank.
NonBlank(x) ==
  /\ x.type \notin {"undefined", "null"}
  /\ trim(StringOf(x)) # <<>>

\* A text that is empty or blank.
BlankString(x) == x.type = "string" /\ trim(x.s) = <<>>

\* No tip: a value that is missing, null, false or 0, or a text or an array
\* that reads as blank.
MissingOrBlank(x) ==
  \/ x \in {Undefined, Null, Bool(FALSE), Num(0)}
  \/ (x.type \in {"string", "array"} /\ trim(x.s) = <<>>)

\* The first line of a text that is not blank, without the white space
\* around it; the empty text when every line is blank.
FirstLineOf(s) ==
  LET ls == SplitLines(s) IN IF ls = <<>> THEN <<>> ELSE ls[1]

\* The text of the last response is no JSON.
Unparseable(r) ==
  outcomes[r][Len(outcomes[r])].response.text \notin {TextObject, TextDocument}

\* C37: every 200 of the current handler to a POST has an aiSummary that is
\* not blank, which is "No summary available." when the provider's output
\* has none, has a blank one or is no JSON; and its aiTip is the first
\* non-blank line of recoverySuggestions when the provider's aiTip is
\* missing or blank and recoverySuggestions is a string, and the provider's
\* aiTip otherwise.
C37_SummaryAndTip ==
  \A r \in Reqs :
    CurrentOK(r) =>
      LET given == Provided(r)
          sent == SentMembers(r)
      IN /\ NonBlank(sent.aiSummary)
         /\ (\/ given.aiSummary = Undefined
             \/ BlankString(given.aiSummary)
             \/ Unparseable(r)) =>
              sent.aiSummary = Str(NoSummaryAvailable)
         /\ IF /\ MissingOrBlank(given.aiTip)
               /\ given.recoverySuggestions.type = "string"
            THEN sent.aiTip = Str(FirstLineOf(given.recoverySuggestions.s))
            ELSE sent.aiTip = given.aiTip

\* A 200 whose aiTip is the line "rest", found behind two blank lines, in
\* place of a blank aiTip, and whose aiSummary stands in for a blank one.
C37_Witness ==
  \E r \in Reqs :
    /\ CurrentOK(r)
    /\ BlankString(Provided(r).aiTip)
    /\ Provided(r).aiTip # Str(<<>>)
    /\ BlankString(Provided(r).aiSummary)
    /\ Provided(r).recoverySuggestions = Str(TextSuggestions)
    /\ SentMembers(r).aiTip = Str(<<"r", "e", "s", "t">>)
    /\ SentMembers(r).aiSummary = Str(NoSummaryAvailable)

=============================================================================
